---- MODULE Spec2Model ----
(***************************************************************************)
(* Model of the QueryRunner of pkg/plugin/query_runner.go: the request     *)
(* coalescer that buffers RequestMetrics calls for a debounce period,      *)
(* deduplicates them with uniqueRequests, dispatches the upstream calls    *)
(* through iter.ForEach and routes every response with sendResponse.       *)
(***************************************************************************)
EXTENDS Integers, Sequences, FiniteSets, TLC

(***************************************************************************)
(* Bounds of the model.                                                    *)
(***************************************************************************)
\* number of RequestMetrics calls made over a run
MaxCalls == 2
\* number of sendRequests goroutines (fired timers) alive at the same time
MaxRounds == 2
\* number of time.AfterFunc timers created and not yet fired
MaxArmed == 2
\* runtime.GOMAXPROCS(0): the number of worker goroutines of iter.ForEach
MaxGoroutines == 2
\* number of requests (one per id of a call) appended to q.requests over a run
MaxRequests == 3

Calls == 1..MaxCalls

(***************************************************************************)
(* Values.                                                                 *)
(***************************************************************************)
IDs == {1, 2}

\* MetricsType values in the order slices.Sort gives them
TypeOrder == <<"cpu", "disk-iops">>
MetricsTypes == {TypeOrder[i] : i \in 1..Len(TypeOrder)}

serverMetricsTypeSeries ==
    [t \in MetricsTypes |->
        IF t = "cpu" THEN {"cpu"} ELSE {"disk.0.iops.read", "disk.0.iops.write"}]

Range(s) == {s[i] : i \in 1..Len(s)}

\* the error values
NoErr == "nil"
ErrUpstream == "upstream error"
ErrCanceled == "context canceled"

\* *M: the nil pointer, and a metrics value
NilMetrics == [isNil |-> TRUE, Start |-> 0, End |-> 0, Step |-> 0,
               TimeSeries |-> [s \in {} |-> 0]]

\* What the Hetzner Cloud API answers to GetMetrics(id, Types, Start, End, Step):
\* the series of the requested types; a sample stands for the resource it is of.
apiMetrics(id, opts) ==
    [isNil |-> FALSE, Start |-> opts.TimeRange.From, End |-> opts.TimeRange.To,
     Step |-> opts.Step,
     TimeSeries |-> [s \in UNION {serverMetricsTypeSeries[t] : t \in Range(opts.MetricsTypes)} |-> id]]

\* the three shapes of the (*M, error) pair an APIRequestFn can return
Outcomes == {"ok", "err", "errWithMetrics"}

apiRequestFn(id, opts, outcome) ==
    [metrics |-> IF outcome = "err" THEN NilMetrics ELSE apiMetrics(id, opts),
     err |-> IF outcome = "ok" THEN NoErr ELSE ErrUpstream]

\* mutant: the filter hands the whole upstream response on
filterServerMetricsKeepsAll(metrics, metricsTypes) == metrics

\* filterServerMetrics: a copy whose TimeSeries holds, for every series of the
\* requested types, the series of the source (the nil slice, 0, when absent).
\* Dereferencing the nil pointer panics: the callers test PanicsOnFilter first.
filterServerMetrics(metrics, metricsTypes) ==
    [metrics EXCEPT !.TimeSeries =
        [s \in UNION {serverMetricsTypeSeries[t] : t \in Range(metricsTypes)} |->
            IF s \in DOMAIN metrics.TimeSeries THEN metrics.TimeSeries[s] ELSE 0]]

PanicsOnFilter(metrics) == metrics.isNil

(***************************************************************************)
(* RequestOpts.matches and uniqueRequests.                                 *)
(***************************************************************************)
\* mutant: the range and the step are not compared
matchesTypesOnly(r, other) == Range(other.MetricsTypes) \subseteq Range(r.MetricsTypes)

\* mutant: the metrics types of the two must be the same
matchesSameTypes(r, other) ==
    /\ r.TimeRange.From = other.TimeRange.From /\ r.TimeRange.To = other.TimeRange.To
    /\ r.Step = other.Step
    /\ Range(other.MetricsTypes) = Range(r.MetricsTypes)

\* mutant: r must hold a type that other does not ask for
matchesStrictSuperset(r, other) ==
    /\ r.TimeRange.From = other.TimeRange.From /\ r.TimeRange.To = other.TimeRange.To
    /\ r.Step = other.Step
    /\ Range(other.MetricsTypes) \subseteq Range(r.MetricsTypes)
    /\ Range(other.MetricsTypes) # Range(r.MetricsTypes)

matches(r, other) ==
    LET timeRangeMatches == r.TimeRange.From = other.TimeRange.From
                            /\ r.TimeRange.To = other.TimeRange.To
        stepMatches == r.Step = other.Step
        typesMatch == \A i \in 1..Len(other.MetricsTypes) :
                          other.MetricsTypes[i] \in Range(r.MetricsTypes)
    IN timeRangeMatches /\ stepMatches /\ typesMatch

\* mutant: the metrics types are put in descending order
SortTypesDescending(S) ==
    LET asc == SelectSeq(TypeOrder, LAMBDA t : t \in S)
    IN [i \in 1..Len(asc) |-> asc[Len(asc) + 1 - i]]

\* slices.Sort of a set of metrics types
SortTypes(S) == SelectSeq(TypeOrder, LAMBDA t : t \in S)

\* mutant: requests of one (TimeRange, Step) are not merged
uniqueRequestsNoMerge(requests) ==
    {[MetricsTypes |-> SortTypes(Range(requests[i].MetricsTypes)),
      TimeRange |-> requests[i].TimeRange, Step |-> requests[i].Step] : i \in 1..Len(requests)}

\* mutant: the key leaves the step out
uniqueRequestsByRange(requests) ==
    LET ranges == {requests[i].TimeRange : i \in 1..Len(requests)}
        first(tr) == requests[CHOOSE i \in 1..Len(requests) :
                        /\ requests[i].TimeRange = tr
                        /\ \A j \in 1..(i - 1) : requests[j].TimeRange # tr]
        types(tr) == UNION {Range(requests[i].MetricsTypes) :
                        i \in {j \in 1..Len(requests) : requests[j].TimeRange = tr}}
    IN {[MetricsTypes |-> SortTypes(types(tr)), TimeRange |-> tr, Step |-> first(tr).Step] :
            tr \in ranges}

\* mutant: a key keeps the metrics types of its first member only
uniqueRequestsFirstTypes(requests) ==
    LET keys == {[timeRange |-> requests[i].TimeRange, step |-> requests[i].Step] :
                     i \in 1..Len(requests)}
        first(k) == requests[CHOOSE i \in 1..Len(requests) :
                        /\ requests[i].TimeRange = k.timeRange /\ requests[i].Step = k.step
                        /\ \A j \in 1..(i - 1) :
                              ~(requests[j].TimeRange = k.timeRange /\ requests[j].Step = k.step)]
    IN {[MetricsTypes |-> SortTypes(Range(first(k).MetricsTypes)),
         TimeRange |-> k.timeRange, Step |-> k.step] : k \in keys}

\* uniqueRequests: one RequestOpts per (TimeRange, Step) key of the input, with
\* the sorted union of the metrics types of the key's members.  The slice is
\* built by ranging over a map, so its order is not fixed: the result is
\* given as the set of its elements.
uniqueRequests(requests) ==
    LET keys == {[timeRange |-> requests[i].TimeRange, step |-> requests[i].Step] :
                     i \in 1..Len(requests)}
        unique(k) == UNION {Range(requests[i].MetricsTypes) :
                        i \in {j \in 1..Len(requests) :
                                 requests[j].TimeRange = k.timeRange /\ requests[j].Step = k.step}}
    IN {[MetricsTypes |-> SortTypes(unique(k)), TimeRange |-> k.timeRange, Step |-> k.step] :
            k \in keys}

\* the slices uniqueRequests can return for a set of buckets: every order
RECURSIVE Orders(_)
Orders(S) ==
    IF S = {} THEN {<<>>}
    ELSE UNION {{<<x>> \o t : t \in Orders(S \ {x})} : x \in S}

(***************************************************************************)
(* The inputs of RequestMetrics.                                           *)
(***************************************************************************)
NoOpts == [MetricsTypes |-> <<>>, TimeRange |-> [From |-> 0, To |-> 0], Step |-> 0]

\* queryMetrics passes one metrics type, the query's time range and stepSize:
\* a request, and requests that differ from it in the type, the range, the step
OptsInputs ==
    {[MetricsTypes |-> <<"cpu">>, TimeRange |-> [From |-> 0, To |-> 10], Step |-> 1],
     [MetricsTypes |-> <<"disk-iops">>, TimeRange |-> [From |-> 0, To |-> 10], Step |-> 1],
     [MetricsTypes |-> <<"cpu">>, TimeRange |-> [From |-> 0, To |-> 20], Step |-> 1],
     [MetricsTypes |-> <<"cpu">>, TimeRange |-> [From |-> 0, To |-> 10], Step |-> 2]}

BaseOpts == [MetricsTypes |-> <<"cpu">>, TimeRange |-> [From |-> 0, To |-> 10], Step |-> 1]

\* GetResourceIDs: the ids of the query model, or those the API lists
IdsInputs == {<<1>>, <<1, 2>>, <<1, 1>>}

(***************************************************************************)
(* State.                                                                  *)
(***************************************************************************)
VARIABLES
    calls,        \* per RequestMetrics call: its position, arguments and locals
    responseCh,   \* per RequestMetrics call: the buffered channel's content
    requests,     \* q.requests: map id -> list of request{opts, responseCh}
    bufferTimer,  \* q.bufferTimer: "nil" or "set" (the handle is only nil-tested)
    armed,        \* the timers created by time.AfterFunc that have not fired
    mutex,        \* q.mutex: <<"free", 0>> or its holder
    rounds,       \* per sendRequests goroutine: its position and locals
    crashed,      \* an unrecovered panic has ended the process
    args,         \* the arguments of a call of matches, uniqueRequests or stepSize
    result,       \* what that call has returned
    queries,      \* req.Queries of a QueryData call
    stream,       \* the conc stream of that call: the position of every task
    responses,    \* resp.Responses, and whether QueryData has returned
    cache,        \* NameCache.cache: map id -> name
    cacheMutex,   \* the sync.Mutex of the NameCache: <<"free", 0>> or its holder
    gets,         \* per caller of the NameCache: its position, arguments and returns
    upstream      \* the names the API holds, and the getFn calls made per id

\* the state of the QueryRunner
qrVars == <<calls, responseCh, requests, bufferTimer, armed, mutex, rounds, crashed>>

\* the state of the function calls and of QueryData
dsVars == <<args, result, queries, stream, responses>>

\* the state of the NameCache
ncVars == <<cache, cacheMutex, gets, upstream>>

vars == <<qrVars, dsVars, ncVars>>

Free == <<"free", 0>>

NoResults == [i \in {} |-> NilMetrics]

\* taken records the err of every response the call has taken from its channel
IdleCall == [pc |-> "idle", ids |-> <<>>, opts |-> NoOpts, ctxDone |-> FALSE,
             results |-> NoResults, taken |-> <<>>, ret |-> "none", err |-> NoErr]

\* the running sendRequests goroutines, oldest first
Running == 1..Len(rounds)

\* NewQueryRunner
NewQueryRunner ==
    /\ calls = [c \in Calls |-> IdleCall]
    /\ responseCh = [c \in Calls |-> <<>>]
    /\ requests = [i \in {} |-> <<>>]
    /\ bufferTimer = "nil"
    /\ armed = 0
    /\ mutex = Free
    /\ rounds = <<>>
    /\ crashed = FALSE

\* no function is being called
NoArgs == [fn |-> "none"]
NoReturn == [returned |-> FALSE]

\* backend.NewQueryDataResponse(): an empty Responses map
\* returned and err are what QueryData has returned besides it
NewQueryDataResponse == [returned |-> FALSE, err |-> NoErr, Responses |-> [id \in {} |-> "none"]]

\* no call of a function and no QueryData is under way
NoDatasourceCall ==
    /\ args = NoArgs
    /\ result = NoReturn
    /\ queries = <<>>
    /\ stream = <<>>
    /\ responses = NewQueryDataResponse

\* NewNameCache, with no caller
NewNameCache ==
    /\ cache = [id \in {} |-> ""]
    /\ cacheMutex = Free
    /\ gets = <<>>
    /\ upstream = [names |-> [id \in {} |-> ""], calls |-> [id \in {} |-> 0]]

Init == NewQueryRunner /\ NoDatasourceCall /\ NewNameCache

(***************************************************************************)
(* startBuffer, on the values it reads: the new timer handle and the       *)
(* number of timers it creates.                                            *)
(***************************************************************************)
startBufferArms(timer) == timer = "nil"

(***************************************************************************)
(* RequestMetrics.                                                         *)
(***************************************************************************)
\* mutant: the request is appended twice for an id
appendRequestTwice(reqs, id, req) ==
    [i \in DOMAIN reqs \cup {id} |->
        IF i = id
        THEN (IF id \in DOMAIN reqs THEN reqs[id] \o <<req, req>> ELSE <<req, req>>)
        ELSE reqs[i]]

\* q.requests[id] = append(q.requests[id], req)
appendRequest(reqs, id, req) ==
    [i \in DOMAIN reqs \cup {id} |->
        IF i = id
        THEN (IF id \in DOMAIN reqs THEN Append(reqs[id], req) ELSE <<req>>)
        ELSE reqs[i]]

RECURSIVE appendAll(_, _, _)
appendAll(reqs, ids, req) ==
    IF ids = <<>> THEN reqs
    ELSE appendAll(appendRequest(reqs, Head(ids), req), Tail(ids), req)

RECURSIVE sumLen(_)
sumLen(S) == IF S = {} THEN 0 ELSE LET c == CHOOSE x \in S : TRUE IN Len(calls[c].ids) + sumLen(S \ {c})
submitted == sumLen(Calls)

\* make(chan, len(ids)); q.mutex.Lock(); the appends
RequestMetricsLock(c, ids, opts) ==
    /\ ~crashed
    /\ calls[c].pc = "idle"
    /\ \A d \in Calls : d < c => calls[d].pc # "idle"
    /\ c = 1 => opts = BaseOpts
    /\ Len(ids) + submitted <= MaxRequests
    /\ mutex = Free
    /\ mutex' = <<"call", c>>
    /\ requests' = appendAll(requests, ids, [opts |-> opts, responseCh |-> c])
    /\ calls' = [calls EXCEPT ![c].pc = "locked", ![c].ids = ids, ![c].opts = opts]
    /\ UNCHANGED <<responseCh, bufferTimer, armed, rounds, crashed>>
    /\ UNCHANGED dsVars
    /\ UNCHANGED ncVars

\* q.startBuffer(); q.mutex.Unlock()
RequestMetricsSubmit(c) ==
    /\ ~crashed
    /\ calls[c].pc = "locked"
    /\ mutex = <<"call", c>>
    /\ startBufferArms(bufferTimer) => armed < MaxArmed
    /\ bufferTimer' = "set"
    /\ armed' = IF startBufferArms(bufferTimer) THEN armed + 1 ELSE armed
    /\ mutex' = Free
    /\ calls' = [calls EXCEPT ![c].pc = "waiting"]
    /\ UNCHANGED <<responseCh, requests, rounds, crashed>>
    /\ UNCHANGED dsVars
    /\ UNCHANGED ncVars

\* mutant: the cancellation is only seen once no timer is armed
RequestMetricsCanceledAfterTimer(c) ==
    /\ ~crashed
    /\ calls[c].pc = "waiting"
    /\ armed = 0
    /\ calls' = [calls EXCEPT ![c].pc = "done", ![c].ctxDone = TRUE, ![c].ret = "nil", ![c].err = ErrCanceled]
    /\ UNCHANGED <<responseCh, requests, bufferTimer, armed, mutex, rounds, crashed>>
    /\ UNCHANGED dsVars
    /\ UNCHANGED ncVars

\* mutant: the cancellation of a call stops the upstream calls in flight
RequestMetricsCanceledUnwinds(c) ==
    /\ ~crashed
    /\ calls[c].pc = "waiting"
    /\ calls' = [calls EXCEPT ![c].pc = "done", ![c].ctxDone = TRUE, ![c].ret = "nil", ![c].err = ErrCanceled]
    /\ rounds' = <<>>
    /\ UNCHANGED <<responseCh, requests, bufferTimer, armed, mutex, crashed>>
    /\ UNCHANGED dsVars
    /\ UNCHANGED ncVars

\* the caller's context is cancelled while RequestMetrics waits, and the select
\* takes the case <-ctx.Done(): return nil, ctx.Err()
RequestMetricsCanceled(c) ==
    /\ ~crashed
    /\ calls[c].pc = "waiting"
    /\ calls' = [calls EXCEPT ![c].pc = "done", ![c].ctxDone = TRUE, ![c].ret = "nil", ![c].err = ErrCanceled]
    /\ UNCHANGED <<responseCh, requests, bufferTimer, armed, mutex, rounds, crashed>>
    /\ UNCHANGED dsVars
    /\ UNCHANGED ncVars

\* the loop condition of RequestMetrics, on the results map
loopDone(results, ids) == ~(Cardinality(DOMAIN results) < Len(ids))

\* results[resp.id] = resp.metrics
putResult(results, resp) ==
    [i \in DOMAIN results \cup {resp.id} |-> IF i = resp.id THEN resp.metrics ELSE results[i]]

\* mutant: an error result ends the loop but the results taken so far are returned
RequestMetricsReceivePartial(c) ==
    /\ ~crashed
    /\ calls[c].pc = "waiting"
    /\ responseCh[c] # <<>>
    /\ LET resp == Head(responseCh[c])
           results == putResult(calls[c].results, resp)
       IN /\ responseCh' = [responseCh EXCEPT ![c] = Tail(@)]
          /\ calls' =
               IF resp.err # NoErr \/ loopDone(results, calls[c].ids)
               THEN [calls EXCEPT ![c].pc = "done", ![c].taken = Append(@, resp.err),
                                  ![c].ret = "map", ![c].results = results]
               ELSE [calls EXCEPT ![c].taken = Append(@, resp.err), ![c].results = results]
    /\ UNCHANGED <<requests, bufferTimer, armed, mutex, rounds, crashed>>
    /\ UNCHANGED dsVars
    /\ UNCHANGED ncVars

\* case resp := <-responseCh
RequestMetricsReceive(c) ==
    /\ ~crashed
    /\ calls[c].pc = "waiting"
    /\ responseCh[c] # <<>>
    /\ LET resp == Head(responseCh[c])
           results == putResult(calls[c].results, resp)
       IN /\ responseCh' = [responseCh EXCEPT ![c] = Tail(@)]
          /\ calls' =
               IF resp.err # NoErr
               THEN [calls EXCEPT ![c].pc = "done", ![c].taken = Append(@, resp.err),
                                  ![c].ret = "nil", ![c].err = resp.err]
               ELSE IF loopDone(results, calls[c].ids)
               THEN [calls EXCEPT ![c].pc = "done", ![c].taken = Append(@, resp.err),
                                  ![c].ret = "map", ![c].results = results]
               ELSE [calls EXCEPT ![c].taken = Append(@, resp.err), ![c].results = results]
    /\ UNCHANGED <<requests, bufferTimer, armed, mutex, rounds, crashed>>
    /\ UNCHANGED dsVars
    /\ UNCHANGED ncVars

(***************************************************************************)
(* sendRequests: the function of the timer, run on the timer's goroutine.  *)
(***************************************************************************)
Min(a, b) == IF a < b THEN a ELSE b

\* the (id, opts) list sendRequests builds from q.requests, in one of the
\* orders the two map iterations can give
RECURSIVE optsOf(_)
optsOf(reqs) == IF reqs = <<>> THEN <<>> ELSE <<Head(reqs).opts>> \o optsOf(Tail(reqs))

allRequestsOf(reqs) ==
    CHOOSE s \in Orders(UNION {{[id |-> id, opts |-> o] : o \in uniqueRequests(optsOf(reqs[id]))} :
                            id \in DOMAIN reqs}) : TRUE

\* mutant: one worker for every element
firstTakenAll(all) == {1..Len(all)}

\* the elements the workers of iter.ForEach take first
firstTaken(all) == {S \in SUBSET (1..Len(all)) : Cardinality(S) = Min(Len(all), MaxGoroutines)}

calling(S) == {[idx |-> i] : i \in S}

\* mutant: sendRequests keeps q.mutex locked over the calls of iter.ForEach
sendRequestsHoldsMutex ==
    /\ ~crashed
    /\ armed > 0
    /\ Len(rounds) < MaxRounds
    /\ mutex = Free
    /\ armed' = armed - 1
    /\ mutex' = <<"round", Len(rounds) + 1>>
    /\ LET all == allRequestsOf(requests)
       IN \E S \in firstTaken(all) :
            rounds' = Append(rounds, [pc |-> "dispatch", snapshot |-> requests,
                                      allRequests |-> all,
                                      todo |-> (1..Len(all)) \ S, inflight |-> calling(S),
                                      live |-> Cardinality(S), panicked |-> FALSE])
    /\ UNCHANGED <<calls, responseCh, requests, bufferTimer, crashed>>
    /\ UNCHANGED dsVars
    /\ UNCHANGED ncVars

\* The timer fires and sendRequests runs on a goroutine of its own up to the
\* calls of q.apiRequestFn: q.mutex.Lock(), the loop over q.requests,
\* q.mutex.Unlock(), and the workers of iter.ForEach take their first elements.
\* snapshot records the q.requests the loop has read.
sendRequests ==
    /\ ~crashed
    /\ armed > 0
    /\ Len(rounds) < MaxRounds
    /\ mutex = Free
    /\ armed' = armed - 1
    /\ LET all == allRequestsOf(requests)
       IN \E S \in firstTaken(all) :
            rounds' = Append(rounds, [pc |-> "dispatch", snapshot |-> requests,
                                      allRequests |-> all,
                                      todo |-> (1..Len(all)) \ S, inflight |-> calling(S),
                                      live |-> Cardinality(S), panicked |-> FALSE])
    /\ UNCHANGED <<calls, responseCh, requests, bufferTimer, mutex, crashed>>
    /\ UNCHANGED dsVars
    /\ UNCHANGED ncVars

(***************************************************************************)
(* sendResponse.                                                           *)
(***************************************************************************)
\* the response sendRequests hands to sendResponse for a finished call
responseOf(r, w, outcome) ==
    LET req == rounds[r].allRequests[w.idx]
        got == apiRequestFn(req.id, req.opts, outcome)
    IN [id |-> req.id, opts |-> req.opts, metrics |-> got.metrics, err |-> got.err]

requestsFor(reqs, id) == IF id \in DOMAIN reqs THEN reqs[id] ELSE <<>>

\* the requests of the list the response matches / the others (newRequestsForID)
matchedRequests(reqs, resp) ==
    SelectSeq(requestsFor(reqs, resp.id), LAMBDA req : matches(resp.opts, req.opts))

newRequestsForID(reqs, resp) ==
    SelectSeq(requestsFor(reqs, resp.id), LAMBDA req : ~matches(resp.opts, req.opts))

\* make([]request, 0, len(q.requests[resp.id])-1) panics on a capacity of -1;
\* q.filterMetricsFn(resp.metrics, ...) is evaluated for the first matching
\* request, also when resp.err is set, and panics on the nil pointer
sendResponsePanics(reqs, resp) ==
    \/ Len(requestsFor(reqs, resp.id)) = 0
    \/ (matchedRequests(reqs, resp) # <<>> /\ PanicsOnFilter(resp.metrics))

\* req.responseCh <- response{...} for every matching request, in order
RECURSIVE deliver(_, _, _)
deliver(chs, matched, resp) ==
    IF matched = <<>> THEN chs
    ELSE LET req == Head(matched)
             msg == [id |-> resp.id, opts |-> req.opts,
                     metrics |-> filterServerMetrics(resp.metrics, req.opts.MetricsTypes),
                     err |-> resp.err]
         IN deliver([chs EXCEPT ![req.responseCh] = Append(@, msg)], Tail(matched), resp)

\* mutant: the answered requests stay in q.requests
removeMatchedKeepsAll(reqs, resp) == reqs

\* mutant: the key of the id stays, with the empty list
removeMatchedKeepsKey(reqs, resp) ==
    [i \in DOMAIN reqs \cup {resp.id} |->
        IF i = resp.id THEN newRequestsForID(reqs, resp) ELSE reqs[i]]

\* delete(q.requests, resp.id), or q.requests[resp.id] = newRequestsForID
removeMatched(reqs, resp) ==
    LET rest == newRequestsForID(reqs, resp)
    IN IF rest = <<>>
       THEN [i \in DOMAIN reqs \ {resp.id} |-> reqs[i]]
       ELSE [reqs EXCEPT ![resp.id] = rest]

\* the worker's next element, when there is one
nextTaken(todo) == IF todo = {} THEN {{}} ELSE {{i} : i \in todo}

\* mutant: the response is routed to the matching requests of the round's
\* snapshot, and only those are removed
sendResponseFromSnapshot(r, w, outcome) ==
    /\ ~crashed
    /\ r \in Running
    /\ w \in rounds[r].inflight
    /\ mutex = Free
    /\ LET resp == responseOf(r, w, outcome)
           matched == SelectSeq(matchedRequests(requests, resp),
                                LAMBDA req : req \in Range(requestsFor(rounds[r].snapshot, resp.id)))
           rest == SelectSeq(requestsFor(requests, resp.id),
                             LAMBDA req : req \notin Range(matched))
       IN IF sendResponsePanics(requests, resp)
          THEN /\ rounds' = [rounds EXCEPT ![r].inflight = @ \ {w},
                                           ![r].live = @ - 1,
                                           ![r].panicked = TRUE]
               /\ UNCHANGED <<responseCh, requests>>
          ELSE LET chs == deliver(responseCh, matched, resp)
               IN /\ \A c \in Calls : Len(chs[c]) <= Len(calls[c].ids)
                  /\ responseCh' = chs
                  /\ requests' = IF rest = <<>>
                                 THEN [i \in DOMAIN requests \ {resp.id} |-> requests[i]]
                                 ELSE [requests EXCEPT ![resp.id] = rest]
                  /\ \E S \in nextTaken(rounds[r].todo) :
                        rounds' = [rounds EXCEPT ![r].inflight = (@ \ {w}) \cup calling(S),
                                                 ![r].todo = @ \ S]
    /\ UNCHANGED <<calls, bufferTimer, armed, mutex, crashed>>
    /\ UNCHANGED dsVars
    /\ UNCHANGED ncVars

\* q.apiRequestFn returns to its worker, which runs sendResponse: q.mutex.Lock(),
\* the body, the deferred q.mutex.Unlock(); a send on a full channel blocks.
\* The worker then takes its next element; a panic ends the worker.
sendResponse(r, w, outcome) ==
    /\ ~crashed
    /\ r \in Running
    /\ w \in rounds[r].inflight
    /\ mutex = Free
    /\ LET resp == responseOf(r, w, outcome)
       IN IF sendResponsePanics(requests, resp)
          THEN /\ rounds' = [rounds EXCEPT ![r].inflight = @ \ {w},
                                           ![r].live = @ - 1,
                                           ![r].panicked = TRUE]
               /\ UNCHANGED <<responseCh, requests>>
          ELSE LET chs == deliver(responseCh, matchedRequests(requests, resp), resp)
               IN /\ \A c \in Calls : Len(chs[c]) <= Len(calls[c].ids)
                  /\ responseCh' = chs
                  /\ requests' = removeMatched(requests, resp)
                  /\ \E S \in nextTaken(rounds[r].todo) :
                        rounds' = [rounds EXCEPT ![r].inflight = (@ \ {w}) \cup calling(S),
                                                 ![r].todo = @ \ S]
    /\ UNCHANGED <<calls, bufferTimer, armed, mutex, crashed>>
    /\ UNCHANGED dsVars
    /\ UNCHANGED ncVars

(***************************************************************************)
(* resetBufferTimer, deferred by sendRequests: it runs when iter.ForEach   *)
(* has returned (or re-panicked), after q.mutex.Unlock().                  *)
(***************************************************************************)
forEachDone(round) ==
    /\ round.pc = "dispatch"
    /\ round.inflight = {}
    /\ (round.todo = {} \/ round.live = 0)

\* the end of sendRequests: the goroutine ends, an unrecovered panic ends the process
endRound(r) ==
    /\ rounds' = SubSeq(rounds, 1, r - 1) \o SubSeq(rounds, r + 1, Len(rounds))
    /\ crashed' = rounds[r].panicked

\* q.bufferTimer = nil
resetBufferTimerNil(r) ==
    /\ ~crashed
    /\ r \in Running
    /\ forEachDone(rounds[r])
    /\ bufferTimer' = "nil"
    /\ rounds' = [rounds EXCEPT ![r].pc = "resetLen"]
    /\ UNCHANGED <<calls, responseCh, requests, armed, mutex, crashed>>
    /\ UNCHANGED dsVars
    /\ UNCHANGED ncVars

\* if len(q.requests) > 0
resetBufferTimerLen(r) ==
    /\ ~crashed
    /\ r \in Running
    /\ rounds[r].pc = "resetLen"
    /\ IF Cardinality(DOMAIN requests) > 0
       THEN /\ rounds' = [rounds EXCEPT ![r].pc = "startBuffer"]
            /\ UNCHANGED crashed
       ELSE endRound(r)
    /\ UNCHANGED <<calls, responseCh, requests, bufferTimer, armed, mutex>>
    /\ UNCHANGED dsVars
    /\ UNCHANGED ncVars

\* startBuffer: if q.bufferTimer == nil
resetBufferTimerTest(r) ==
    /\ ~crashed
    /\ r \in Running
    /\ rounds[r].pc = "startBuffer"
    /\ IF startBufferArms(bufferTimer)
       THEN /\ rounds' = [rounds EXCEPT ![r].pc = "afterFunc"]
            /\ UNCHANGED crashed
       ELSE endRound(r)
    /\ UNCHANGED <<calls, responseCh, requests, bufferTimer, armed, mutex>>
    /\ UNCHANGED dsVars
    /\ UNCHANGED ncVars

\* startBuffer: q.bufferTimer = time.AfterFunc(q.bufferPeriod, q.sendRequests)
resetBufferTimerArm(r) ==
    /\ ~crashed
    /\ r \in Running
    /\ rounds[r].pc = "afterFunc"
    /\ armed < MaxArmed
    /\ bufferTimer' = "set"
    /\ armed' = armed + 1
    /\ endRound(r)
    /\ UNCHANGED <<calls, responseCh, requests, mutex>>
    /\ UNCHANGED dsVars
    /\ UNCHANGED ncVars

(***************************************************************************)
(* The specification.                                                      *)
(***************************************************************************)
Next ==
    \/ \E c \in Calls, ids \in IdsInputs, opts \in OptsInputs : RequestMetricsLock(c, ids, opts)
    \/ \E c \in Calls : RequestMetricsSubmit(c)
    \/ \E c \in Calls : RequestMetricsCanceled(c)
    \/ \E c \in Calls : RequestMetricsReceive(c)
    \/ sendRequests
    \/ \E r \in Running : \E w \in rounds[r].inflight, outcome \in Outcomes : sendResponse(r, w, outcome)
    \/ \E r \in Running : resetBufferTimerNil(r)
    \/ \E r \in Running : resetBufferTimerLen(r)
    \/ \E r \in Running : resetBufferTimerTest(r)
    \/ \E r \in Running : resetBufferTimerArm(r)

Spec == Init /\ [][Next]_vars

(***************************************************************************)
(* The runner with its scheduling: no context is cancelled, no list of ids *)
(* names an id twice and every upstream call succeeds; a goroutine that    *)
(* can take its next step takes it, an armed timer fires and an upstream   *)
(* call returns.                                                           *)
(***************************************************************************)
LiveIdsInputs == {ids \in IdsInputs : Cardinality(Range(ids)) = Len(ids)}

NextLive ==
    \/ \E c \in Calls, ids \in LiveIdsInputs, opts \in OptsInputs : RequestMetricsLock(c, ids, opts)
    \/ \E c \in Calls : RequestMetricsSubmit(c)
    \/ \E c \in Calls : RequestMetricsReceive(c)
    \/ sendRequests
    \/ \E r \in Running : \E w \in rounds[r].inflight : sendResponse(r, w, "ok")
    \/ \E r \in Running : resetBufferTimerNil(r)
    \/ \E r \in Running : resetBufferTimerLen(r)
    \/ \E r \in Running : resetBufferTimerTest(r)
    \/ \E r \in Running : resetBufferTimerArm(r)

Fairness ==
    /\ WF_vars(\E c \in Calls : RequestMetricsSubmit(c))
    /\ WF_vars(\E c \in Calls : RequestMetricsReceive(c))
    /\ WF_vars(sendRequests)
    /\ WF_vars(\E r \in Running : \E w \in rounds[r].inflight : sendResponse(r, w, "ok"))
    /\ WF_vars(\E r \in Running : resetBufferTimerNil(r))
    /\ WF_vars(\E r \in Running : resetBufferTimerLen(r))
    /\ WF_vars(\E r \in Running : resetBufferTimerTest(r))
    /\ WF_vars(\E r \in Running : resetBufferTimerArm(r))

SpecLive == Init /\ [][NextLive]_vars /\ Fairness

(***************************************************************************)
(* queryMetrics, from the return of RequestMetrics on: a DataResponse is   *)
(* its Error and its Frames, a frame being the pair of an id and a series. *)
(***************************************************************************)
NoFrames == {}

\* serverMetricsToFrames: one frame per series of metrics.TimeSeries
serverMetricsToFrames(id, metrics) == {<<id, s>> : s \in DOMAIN metrics.TimeSeries}

\* metrics, _ := RequestMetrics(...); for id, serverMetrics := range metrics {...}
\* call is the returned RequestMetrics call: a nil map has nothing to range over
queryMetrics(call) ==
    [Error |-> NoErr,
     Frames |-> IF call.ret = "map"
                THEN UNION {serverMetricsToFrames(id, call.results[id]) : id \in DOMAIN call.results}
                ELSE NoFrames]

(***************************************************************************)
(* Calls of the functions matches, uniqueRequests and stepSize: a call     *)
(* takes its arguments from the inputs below and returns once.             *)
(***************************************************************************)
\* length of the list given to uniqueRequests
MaxLen == 3

\* metrics types lists: empty, single, both in either order
TypesInputs == {<<>>, <<"cpu">>, <<"disk-iops">>, <<"cpu", "disk-iops">>, <<"disk-iops", "cpu">>}

\* time ranges that differ in From, in To
RangeInputs == {[From |-> 0, To |-> 10], [From |-> 5, To |-> 10], [From |-> 0, To |-> 20]}

StepInputs == {1, 2}

\* the receivers and arguments of matches
MatchesInputs == [MetricsTypes : TypesInputs, TimeRange : RangeInputs, Step : StepInputs]

\* the elements of the lists given to uniqueRequests
UniqueInputs ==
    [MetricsTypes : {<<"cpu">>, <<"disk-iops">>, <<"disk-iops", "cpu">>},
     TimeRange : {[From |-> 0, To |-> 10], [From |-> 0, To |-> 20]},
     Step : StepInputs]

RECURSIVE Lists(_, _)
Lists(S, n) ==
    IF n = 0 THEN {<<>>}
    ELSE LET shorter == Lists(S, n - 1)
         IN shorter \cup {Append(l, x) : l \in {m \in shorter : Len(m) = n - 1}, x \in S}

\* query.TimeRange in seconds, query.Interval in milliseconds, query.MaxDataPoints
StepSizeInputs ==
    [timeRange : {[From |-> 0, To |-> 30], [From |-> 0, To |-> 1000], [From |-> 0, To |-> 3600],
                  [From |-> 30, To |-> 0]},
     interval : {200, 1000, 5000, 60000, 120000},
     maxDataPoints : {1, 10, 100}]

\* math.Floor(d.Seconds()) of a time.Duration d >= 0 given in milliseconds
FloorSeconds(d) == d \div 1000

\* timeRange.Duration().Seconds()
DurationSeconds(timeRange) == timeRange.To - timeRange.From

\* mutant: the result is not raised to 1
stepSizeNoMinimum(timeRange, interval, maxDataPoints) ==
    LET step == FloorSeconds(interval)
    IN IF step > maxDataPoints
       THEN DurationSeconds(timeRange) \div maxDataPoints
       ELSE step

\* stepSize, for maxDataPoints > 0
stepSize(timeRange, interval, maxDataPoints) ==
    LET step == FloorSeconds(interval)
        step2 == IF step > maxDataPoints
                 THEN DurationSeconds(timeRange) \div maxDataPoints
                 ELSE step
    IN IF step2 < 1 THEN 1 ELSE step2

(***************************************************************************)
(* getDisplayName.  A string is the sequence of its characters; a label    *)
(* name stands as one letter: n for name, d for series_display_name.       *)
(***************************************************************************)
\* number of pieces (texts and placeholders) a legend format is made of
MaxTokens == 3

Open == <<"{", "{">>
Close == <<"}", "}">>

\* AutoLegendFormat: "{{ series_display_name }} {{ name }}"
AutoLegendFormat ==
    <<"{", "{", " ", "d", " ", "}", "}", " ", "{", "{", " ", "n", " ", "}", "}">>

isSpace(c) == c = " "

startsAt(str, i, pat) ==
    /\ i >= 1
    /\ i + Len(pat) - 1 <= Len(str)
    /\ \A k \in 1..Len(pat) : str[i + k - 1] = pat[k]

\* the number of white space characters of str from position q on
spacesAt(str, q) ==
    LET ends == {e \in q..(Len(str) + 1) : \A j \in q..(e - 1) : isSpace(str[j])}
    IN IF q > Len(str) THEN 0 ELSE (CHOOSE e \in ends : \A f \in ends : f <= e) - q

\* legendFormatRegexp, \{\{\s*(.+?)\s*\}\}, matched at position i: the ways to
\* match are k white space characters, then m >= 1 characters, then all the
\* white space that follows, then }}; the regexp engine prefers the larger k
\* and then the smaller m.  The position of the last character of the match,
\* 0 without a match.
matchEnd(str, i) ==
    IF ~startsAt(str, i, Open) THEN 0
    ELSE LET ways == {w \in (0..spacesAt(str, i + 2)) \X (1..Len(str)) :
                         startsAt(str, i + 2 + w[1] + w[2]
                                       + spacesAt(str, i + 2 + w[1] + w[2]), Close)}
             first == CHOOSE w \in ways :
                         \A v \in ways : w[1] > v[1] \/ (w[1] = v[1] /\ w[2] <= v[2])
         IN IF ways = {} THEN 0
            ELSE i + 2 + first[1] + first[2] + spacesAt(str, i + 2 + first[1] + first[2]) + 1

\* strings.Replace(str, pat, "", 1)
removeFirst(str, pat) ==
    LET at == {i \in 1..Len(str) : startsAt(str, i, pat)}
    IN IF at = {} THEN str
       ELSE LET i == CHOOSE j \in at : \A k \in at : j <= k
            IN SubSeq(str, 1, i - 1) \o SubSeq(str, i + Len(pat), Len(str))

\* strings.TrimSpace
TrimSpace(str) ==
    LET solid == {i \in 1..Len(str) : ~isSpace(str[i])}
    IN IF solid = {} THEN <<>>
       ELSE SubSeq(str, CHOOSE i \in solid : \A k \in solid : i <= k,
                        CHOOSE i \in solid : \A k \in solid : k <= i)

\* mutant: the label name keeps its white space
replaceLabelNoTrim(in, labels) ==
    LET labelName == removeFirst(removeFirst(in, Open), Close)
    IN IF labelName \in DOMAIN labels THEN labels[labelName] ELSE <<>>

\* the function given to ReplaceAllStringFunc
replaceLabel(in, labels) ==
    LET labelName == TrimSpace(removeFirst(removeFirst(in, Open), Close))
    IN IF labelName \in DOMAIN labels THEN labels[labelName] ELSE <<>>

\* ReplaceAllStringFunc from position p on: the leftmost match, then the rest
RECURSIVE replaceAllFrom(_, _, _)
replaceAllFrom(str, p, labels) ==
    LET starts == {i \in p..Len(str) : matchEnd(str, i) # 0}
    IN IF starts = {} THEN SubSeq(str, p, Len(str))
       ELSE LET i == CHOOSE j \in starts : \A k \in starts : j <= k
                e == matchEnd(str, i)
            IN SubSeq(str, p, i - 1) \o replaceLabel(SubSeq(str, i, e), labels)
                  \o replaceAllFrom(str, e + 1, labels)

getDisplayName(legendFormat, labels) ==
    replaceAllFrom(IF legendFormat = <<>> THEN AutoLegendFormat ELSE legendFormat, 1, labels)

\* the pieces of a legend format: a text of one character, a placeholder with
\* white space left and right of its label name
Spaces(n) == [i \in 1..n |-> " "]

TokenInputs ==
    {[kind |-> "text", str |-> <<c>>] : c \in {"x", " ", "{", "}"}}
    \cup {[kind |-> "label", name |-> <<"n">>, left |-> l, right |-> r] :
             l \in {0, 1}, r \in {0, 3}}
    \cup {[kind |-> "label", name |-> <<"d">>, left |-> 1, right |-> 1],
          [kind |-> "label", name |-> <<"m">>, left |-> 1, right |-> 1]}

tokenString(t) ==
    IF t.kind = "text" THEN t.str
    ELSE Open \o Spaces(t.left) \o t.name \o Spaces(t.right) \o Close

RECURSIVE formatOf(_)
formatOf(tokens) ==
    IF tokens = <<>> THEN <<>> ELSE tokenString(Head(tokens)) \o formatOf(Tail(tokens))

\* data.Labels: name and series_display_name set, or no label at all
LabelsInputs ==
    {[l \in {<<"n">>, <<"d">>} |-> IF l = <<"n">> THEN <<"w", "e", "b">> ELSE <<"R", "e", "q">>],
     [l \in {} |-> <<>>]}

(***************************************************************************)
(* serverMetricsToFrames and loadBalancerMetricsToFrames with the fields   *)
(* and notices of the frames.  The two functions are the same statements   *)
(* over their own maps of display names and units.  A timestamp is a       *)
(* number of tenths of a second, a float64 is written as its text.         *)
(***************************************************************************)
\* number of samples of a series
MaxSamples == 2

serverSeriesToDisplayName == [s \in {"cpu", "disk.0.iops.read"} |-> IF s = "cpu" THEN "Usage" ELSE "Read"]
serverSeriesToUnit == [s \in {"cpu", "disk.0.iops.read"} |-> IF s = "cpu" THEN "percent" ELSE "iops"]
loadBalancerSeriesToDisplayName ==
    [s \in {"open_connections", "bandwidth.in"} |->
        IF s = "open_connections" THEN "Open Connections" ELSE "Received"]
loadBalancerSeriesToUnit ==
    [s \in {"open_connections", "bandwidth.in"} |-> IF s = "open_connections" THEN "none" ELSE "binBps"]

\* m[k] of a Go map: the zero value for a missing key
lookup(m, k) == IF k \in DOMAIN m THEN m[k] ELSE ""

\* strconv.ParseFloat(v, 64): the value, or 0 with a syntax error, or an
\* infinity with a range error
ParseFloat(v) ==
    CASE v = "1.5" -> [f |-> "1.5", err |-> NoErr]
      [] v = "abc" -> [f |-> "0", err |-> "invalid syntax"]
      [] v = "1e400" -> [f |-> "+Inf", err |-> "value out of range"]

ValueInputs == {"1.5", "abc", "1e400"}

\* time.Unix(int64(value.Timestamp), 0): the whole seconds
timeUnix(timestamp) == timestamp \div 10

NewFrame == [Notices |-> <<>>, timestamps |-> <<>>, values |-> <<>>]

\* mutant: a sample that does not parse is left out of the values
RECURSIVE appendSamplesParsed(_, _)
appendSamplesParsed(frame, series) ==
    IF series = <<>> THEN frame
    ELSE LET value == Head(series)
             parsed == ParseFloat(value.Value)
         IN appendSamplesParsed(
               [frame EXCEPT
                   !.timestamps = Append(@, timeUnix(value.Timestamp)),
                   !.Notices = IF parsed.err # NoErr
                               THEN Append(@, [Severity |-> "warning", Value |-> value.Value,
                                               Timestamp |-> value.Timestamp, err |-> parsed.err])
                               ELSE @,
                   !.values = IF parsed.err # NoErr THEN @ ELSE Append(@, parsed.f)],
               Tail(series))

\* for _, value := range series
RECURSIVE appendSamples(_, _)
appendSamples(frame, series) ==
    IF series = <<>> THEN frame
    ELSE LET value == Head(series)
             parsed == ParseFloat(value.Value)
         IN appendSamples(
               [frame EXCEPT
                   !.timestamps = Append(@, timeUnix(value.Timestamp)),
                   !.Notices = IF parsed.err # NoErr
                               THEN Append(@, [Severity |-> "warning", Value |-> value.Value,
                                               Timestamp |-> value.Timestamp, err |-> parsed.err])
                               ELSE @,
                   !.values = Append(@, parsed.f)],
               Tail(series))

\* the body of for name, series := range metrics.TimeSeries
seriesFrame(displayNames, units, id, resourceName, legendFormat, name, series) ==
    LET frame == appendSamples(NewFrame, series)
        labels == [l \in {<<"i">>, <<"n">>, <<"s">>, <<"d">>} |->
                      CASE l = <<"i">> -> <<ToString(id)>>
                        [] l = <<"n">> -> <<resourceName>>
                        [] l = <<"s">> -> <<name>>
                        [] l = <<"d">> -> <<lookup(displayNames, name)>>]
    IN [Notices |-> frame.Notices,
        Fields |-> <<[Name |-> "time", values |-> frame.timestamps],
                     [Name |-> name, Labels |-> labels, values |-> frame.values,
                      Unit |-> lookup(units, name),
                      DisplayNameFromDS |-> getDisplayName(legendFormat, labels)]>>]

\* serverMetricsToFrames; the frames come in the order of a range over a map
serverFrames(id, serverName, legendFormat, metrics) ==
    {seriesFrame(serverSeriesToDisplayName, serverSeriesToUnit, id, serverName, legendFormat,
                 name, metrics.TimeSeries[name]) : name \in DOMAIN metrics.TimeSeries}

loadBalancerMetricsToFrames(id, loadBalancerName, legendFormat, metrics) ==
    {seriesFrame(loadBalancerSeriesToDisplayName, loadBalancerSeriesToUnit, id, loadBalancerName,
                 legendFormat, name, metrics.TimeSeries[name]) : name \in DOMAIN metrics.TimeSeries}

\* the series of the API: up to MaxSamples samples, one every 1.5 seconds
SeriesInputs ==
    UNION {{[i \in 1..n |-> [Timestamp |-> 15 * i, Value |-> v[i]]] : v \in [1..n -> ValueInputs]} :
              n \in 0..MaxSamples}

TimeSeriesInputs(names) ==
    UNION {[present -> SeriesInputs] : present \in SUBSET names}

(***************************************************************************)
(* GetResourceIDs.  The project holds three servers and two load balancers *)
(* with their labels; the API lists, in the order of their ids, the        *)
(* resources that carry every label of the selector it is given, all of    *)
(* them for the empty selector.                                            *)
(***************************************************************************)
SelectByLabel == "label"
SelectByID == "id"
ResourceTypeServer == "server"
ResourceTypeLoadBalancer == "load-balancer"

\* strings.Join(elems, sep)
RECURSIVE Join(_, _)
Join(elems, sep) ==
    IF elems = <<>> THEN ""
    ELSE IF Len(elems) = 1 THEN elems[1]
    ELSE elems[1] \o sep \o Join(Tail(elems), sep)

projectServers ==
    <<[ID |-> 1, Name |-> "web", Labels |-> {"env"}],
      [ID |-> 2, Name |-> "db", Labels |-> {}],
      [ID |-> 3, Name |-> "job", Labels |-> {"env", "tier"}]>>

projectLoadBalancers ==
    <<[ID |-> 4, Name |-> "lb", Labels |-> {"env"}],
      [ID |-> 5, Name |-> "edge", Labels |-> {}]>>

\* the selectors a resource with these labels answers to
selectorsOf(labels) == {Join(l, ", ") : l \in UNION {Orders(S) : S \in SUBSET labels}}

\* client.Server.AllWithOpts and client.LoadBalancer.AllWithOpts
AllWithOpts(project, listOpts, outcome) ==
    IF outcome = "err" THEN [resources |-> <<>>, err |-> ErrUpstream]
    ELSE [resources |-> SelectSeq(project, LAMBDA res :
                                      listOpts.LabelSelector \in selectorsOf(res.Labels)),
          err |-> NoErr]

RECURSIVE idsOf(_)
idsOf(resources) ==
    IF resources = <<>> THEN <<>> ELSE <<Head(resources).ID>> \o idsOf(Tail(resources))

\* resolve: the switch over qm.ResourceType; listed records the calls made on
\* the API, inserted what has gone to the name cache of the type
resolveWith(qm, selector, outcome) ==
    LET project == IF qm.ResourceType = ResourceTypeServer THEN projectServers
                   ELSE projectLoadBalancers
        opts == [LabelSelector |-> selector]
        got == AllWithOpts(project, opts, outcome)
        call == [client |-> qm.ResourceType, ListOpts |-> opts]
    IN IF qm.ResourceType \notin {ResourceTypeServer, ResourceTypeLoadBalancer}
       THEN [ids |-> <<>>, err |-> "unknown resource type", listed |-> <<>>, inserted |-> <<>>]
       ELSE IF got.err # NoErr
            THEN [ids |-> <<>>, err |-> "failed to resolve resources by label",
                  listed |-> <<call>>, inserted |-> <<>>]
            ELSE [ids |-> idsOf(got.resources), err |-> NoErr,
                  listed |-> <<call>>, inserted |-> got.resources]

\* GetResourceIDs: listOpts is set by the switch over qm.SelectBy and not used
\* again; both list calls join qm.LabelSelectors themselves
GetResourceIDs(qm, outcome) ==
    IF qm.SelectBy = SelectByID /\ Len(qm.ResourceIDs) > 0
    THEN [ids |-> qm.ResourceIDs, err |-> NoErr, listed |-> <<>>, inserted |-> <<>>]
    ELSE IF qm.SelectBy \notin {SelectByLabel, SelectByID}
         THEN [ids |-> <<>>, err |-> "unknown select by value", listed |-> <<>>,
               inserted |-> <<>>]
         ELSE resolveWith(qm, Join(qm.LabelSelectors, ", "), outcome)

QueryModelInputs ==
    [ResourceType : {ResourceTypeServer, ResourceTypeLoadBalancer, "volume"},
     SelectBy : {SelectByID, SelectByLabel, "name"},
     ResourceIDs : {<<>>, <<1>>, <<3, 1>>},
     LabelSelectors : {<<>>, <<"env">>, <<"env", "tier">>}]

FnInputs ==
    {[fn |-> "matches", r |-> r, other |-> other] : r \in MatchesInputs, other \in MatchesInputs}
    \cup {[fn |-> "uniqueRequests", requests |-> l] : l \in Lists(UniqueInputs, MaxLen)}
    \cup {[fn |-> "stepSize", timeRange |-> in.timeRange, interval |-> in.interval,
           maxDataPoints |-> in.maxDataPoints] : in \in StepSizeInputs}
    \cup {[fn |-> "serverMetricsToFrames", id |-> 1, name |-> "web", legendFormat |-> <<>>,
           metrics |-> [TimeSeries |-> ts]] :
             ts \in TimeSeriesInputs(DOMAIN serverSeriesToDisplayName)}
    \cup {[fn |-> "loadBalancerMetricsToFrames", id |-> 2, name |-> "lb", legendFormat |-> <<>>,
           metrics |-> [TimeSeries |-> ts]] :
             ts \in TimeSeriesInputs(DOMAIN loadBalancerSeriesToDisplayName)}
    \cup {[fn |-> "getDisplayName", tokens |-> t, legendFormat |-> formatOf(t), labels |-> l] :
             t \in Lists(TokenInputs, MaxTokens), l \in LabelsInputs}
    \cup {[fn |-> "GetResourceIDs", qm |-> qm] : qm \in QueryModelInputs}

InitFn ==
    /\ NewQueryRunner
    /\ NewNameCache
    /\ args \in FnInputs
    /\ result = NoReturn
    /\ queries = <<>>
    /\ stream = <<>>
    /\ responses = NewQueryDataResponse

Return(v) == [returned |-> TRUE, value |-> v]

matchesCall ==
    /\ args.fn = "matches"
    /\ ~result.returned
    /\ result' = Return(matches(args.r, args.other))
    /\ UNCHANGED <<args, queries, stream, responses>>
    /\ UNCHANGED qrVars
    /\ UNCHANGED ncVars

\* the slice is filled by ranging over the map unique: in any order of its keys
uniqueRequestsCall ==
    /\ args.fn = "uniqueRequests"
    /\ ~result.returned
    /\ \E uniqueSlice \in Orders(uniqueRequests(args.requests)) : result' = Return(uniqueSlice)
    /\ UNCHANGED <<args, queries, stream, responses>>
    /\ UNCHANGED qrVars
    /\ UNCHANGED ncVars

stepSizeCall ==
    /\ args.fn = "stepSize"
    /\ ~result.returned
    /\ result' = Return(stepSize(args.timeRange, args.interval, args.maxDataPoints))
    /\ UNCHANGED <<args, queries, stream, responses>>
    /\ UNCHANGED qrVars
    /\ UNCHANGED ncVars

getDisplayNameCall ==
    /\ args.fn = "getDisplayName"
    /\ ~result.returned
    /\ result' = Return(getDisplayName(args.legendFormat, args.labels))
    /\ UNCHANGED <<args, queries, stream, responses>>
    /\ UNCHANGED qrVars
    /\ UNCHANGED ncVars

serverMetricsToFramesCall ==
    /\ args.fn = "serverMetricsToFrames"
    /\ ~result.returned
    /\ result' = Return(serverFrames(args.id, args.name, args.legendFormat, args.metrics))
    /\ UNCHANGED <<args, queries, stream, responses>>
    /\ UNCHANGED qrVars
    /\ UNCHANGED ncVars

loadBalancerMetricsToFramesCall ==
    /\ args.fn = "loadBalancerMetricsToFrames"
    /\ ~result.returned
    /\ result' = Return(loadBalancerMetricsToFrames(args.id, args.name, args.legendFormat,
                                                    args.metrics))
    /\ UNCHANGED <<args, queries, stream, responses>>
    /\ UNCHANGED qrVars
    /\ UNCHANGED ncVars

\* the list call of the API succeeds or fails
GetResourceIDsCall ==
    /\ args.fn = "GetResourceIDs"
    /\ ~result.returned
    /\ \E outcome \in {"ok", "err"} : result' = Return(GetResourceIDs(args.qm, outcome))
    /\ UNCHANGED <<args, queries, stream, responses>>
    /\ UNCHANGED qrVars
    /\ UNCHANGED ncVars

NextFn ==
    \/ matchesCall
    \/ uniqueRequestsCall
    \/ stepSizeCall
    \/ getDisplayNameCall
    \/ serverMetricsToFramesCall
    \/ loadBalancerMetricsToFramesCall
    \/ GetResourceIDsCall

SpecFn == InitFn /\ [][NextFn]_vars

(***************************************************************************)
(* QueryData: every query is a task of a conc stream of at most ten        *)
(* goroutines; a task returns a callback, and the stream runs the          *)
(* callbacks one after the other, in the order the tasks were submitted.   *)
(***************************************************************************)
\* stream.New().WithMaxGoroutines(10)
StreamMaxGoroutines == 10

\* number of queries of a request, the long request apart
MaxQueries == 2

QueryTypeResourceList == "resource-list"
QueryTypeMetrics == "metrics"

ErrBadRequest == "bad request"

\* RequestMetrics calls that have returned: a map for server 1, the cancellation
ReturnedCalls ==
    {[IdleCall EXCEPT !.pc = "done", !.ids = <<1>>, !.opts = BaseOpts, !.ret = "map",
                      !.results = [id \in {1} |-> filterServerMetrics(apiMetrics(1, BaseOpts),
                                                                      BaseOpts.MetricsTypes)],
                      !.taken = <<NoErr>>],
     [IdleCall EXCEPT !.pc = "done", !.ids = <<1>>, !.opts = BaseOpts, !.ret = "nil",
                      !.err = ErrCanceled, !.ctxDone = TRUE]}

\* a query: its RefID, its QueryType (also empty or unknown), whether its JSON
\* fails to unmarshal, and how its RequestMetrics call returns
QueryInputs ==
    {[RefID |-> id, QueryType |-> t, badJSON |-> b, call |-> c] :
        id \in {"A", "B"}, t \in {"", QueryTypeResourceList, QueryTypeMetrics},
        b \in BOOLEAN, c \in ReturnedCalls}

\* eleven queries, one more than the stream has goroutines
LongRequest ==
    [i \in 1..(StreamMaxGoroutines + 1) |->
        [RefID |-> <<"Q", i>>,
         QueryType |-> IF i % 3 = 0 THEN "" ELSE IF i % 3 = 1 THEN QueryTypeMetrics
                                                 ELSE QueryTypeResourceList,
         badJSON |-> FALSE,
         call |-> CHOOSE c \in ReturnedCalls : c.ret = "map"]]

QueryDataRequests == Lists(QueryInputs, MaxQueries) \cup {LongRequest}

ZeroDataResponse == [Error |-> NoErr, Frames |-> NoFrames]

\* backend.ErrDataResponseWithSource(backend.StatusBadRequest, ...)
ErrDataResponse == [Error |-> ErrBadRequest, Frames |-> NoFrames]

\* queryResourceList
queryResourceList(q) == IF q.badJSON THEN ErrDataResponse ELSE ZeroDataResponse

\* the switch on q.QueryType: var res backend.DataResponse stays zero without a case
dataResponse(q) ==
    IF q.QueryType = QueryTypeResourceList THEN queryResourceList(q)
    ELSE IF q.QueryType = QueryTypeMetrics
         THEN (IF q.badJSON THEN ErrDataResponse ELSE queryMetrics(q.call))
         ELSE ZeroDataResponse

InitQueryData ==
    /\ NewQueryRunner
    /\ NewNameCache
    /\ args = NoArgs
    /\ result = NoReturn
    /\ queries \in QueryDataRequests
    /\ stream = [i \in 1..Len(queries) |-> "queued"]
    /\ responses = NewQueryDataResponse

tasksAt(pc) == {i \in 1..Len(stream) : stream[i] = pc}

\* s.Go(...) of the loop over req.Queries: it waits for a free goroutine
QueryDataGo(i) ==
    /\ i \in tasksAt("queued")
    /\ \A j \in 1..(i - 1) : stream[j] # "queued"
    /\ Cardinality(tasksAt("running")) < StreamMaxGoroutines
    /\ stream' = [stream EXCEPT ![i] = "running"]
    /\ UNCHANGED <<args, result, queries, responses>>
    /\ UNCHANGED qrVars
    /\ UNCHANGED ncVars

\* the task of a query up to its return: res is computed, the callback handed over
QueryDataTask(i) ==
    /\ i \in tasksAt("running")
    /\ stream' = [stream EXCEPT ![i] = "computed"]
    /\ UNCHANGED <<args, result, queries, responses>>
    /\ UNCHANGED qrVars
    /\ UNCHANGED ncVars

\* resp.Responses[q.RefID] = res
putResponse(m, id, res) == [k \in DOMAIN m \cup {id} |-> IF k = id THEN res ELSE m[k]]

\* mutant: only the cases of the switch write their response
QueryDataCallbackOfCase(i) ==
    /\ i \in tasksAt("computed")
    /\ \A j \in 1..(i - 1) : stream[j] = "called"
    /\ stream' = [stream EXCEPT ![i] = "called"]
    /\ responses' =
         IF queries[i].QueryType \in {QueryTypeResourceList, QueryTypeMetrics}
         THEN [responses EXCEPT !.Responses = putResponse(@, queries[i].RefID, dataResponse(queries[i]))]
         ELSE responses
    /\ UNCHANGED <<args, result, queries>>
    /\ UNCHANGED qrVars
    /\ UNCHANGED ncVars

\* the stream's callbacker runs the callback of the next task in order
QueryDataCallback(i) ==
    /\ i \in tasksAt("computed")
    /\ \A j \in 1..(i - 1) : stream[j] = "called"
    /\ stream' = [stream EXCEPT ![i] = "called"]
    /\ responses' = [responses EXCEPT
                       !.Responses = putResponse(@, queries[i].RefID, dataResponse(queries[i]))]
    /\ UNCHANGED <<args, result, queries>>
    /\ UNCHANGED qrVars
    /\ UNCHANGED ncVars

\* s.Wait(); return resp, nil
QueryDataReturn ==
    /\ ~responses.returned
    /\ \A i \in 1..Len(stream) : stream[i] = "called"
    /\ responses' = [responses EXCEPT !.returned = TRUE, !.err = NoErr]
    /\ UNCHANGED <<args, result, queries, stream>>
    /\ UNCHANGED qrVars
    /\ UNCHANGED ncVars

NextQueryData ==
    \/ \E i \in 1..Len(queries) : QueryDataGo(i)
    \/ \E i \in 1..Len(queries) : QueryDataTask(i)
    \/ \E i \in 1..Len(queries) : QueryDataCallback(i)
    \/ QueryDataReturn

SpecQueryData == InitQueryData /\ [][NextQueryData]_vars

(***************************************************************************)
(* NameCache.  gets holds the calls made on the cache in the order of      *)
(* their arrival, upstream the name the API last gave for each resource    *)
(* and the number of getFn calls for it.                                   *)
(***************************************************************************)
\* number of calls (Get and Insert) made on the cache
MaxNameCalls == 3
Names == {"a", "b"}

resource(id, name) == [id |-> id, name |-> name]

\* the resources of an Insert, what identifierFn gives for each, in order: one
\* resource, two resources, one resource twice with a changed name
ResourcesInputs ==
    {<<resource(1, "a")>>, <<resource(1, "b")>>, <<resource(2, "a")>>,
     <<resource(1, "a"), resource(2, "a")>>, <<resource(1, "a"), resource(1, "b")>>}

has(m, id) == id \in DOMAIN m
put(m, id, v) == [k \in DOMAIN m \cup {id} |-> IF k = id THEN v ELSE m[k]]
count(m, id) == IF has(m, id) THEN m[id] ELSE 0

setGet(g, rec) == [gets EXCEPT ![g] = rec]

\* a Get arrives and waits for the lock
NameCacheGet(id) ==
    /\ Len(gets) < MaxNameCalls
    /\ gets' = Append(gets, [op |-> "Get", pc |-> "Lock", id |-> id, name |-> "",
                             err |-> NoErr, fetched |-> FALSE,
                             concurrent |-> cacheMutex # Free])
    /\ UNCHANGED <<cache, cacheMutex, upstream>>
    /\ UNCHANGED qrVars
    /\ UNCHANGED dsVars

\* mutant: the lock is released before getFn is called
NameCacheGetLockReleased(g) ==
    /\ gets[g].op = "Get"
    /\ gets[g].pc = "Lock"
    /\ cacheMutex = Free
    /\ IF has(cache, gets[g].id)
       THEN /\ gets' = setGet(g, [gets[g] EXCEPT !.pc = "done", !.name = cache[gets[g].id]])
            /\ UNCHANGED <<cache, cacheMutex, upstream>>
       ELSE /\ gets' = setGet(g, [gets[g] EXCEPT !.pc = "getFn", !.fetched = TRUE])
            /\ upstream' = [upstream EXCEPT
                               !.calls = put(@, gets[g].id, count(@, gets[g].id) + 1)]
            /\ UNCHANGED <<cache, cacheMutex>>
    /\ UNCHANGED qrVars
    /\ UNCHANGED dsVars

\* Get takes the lock and looks the id up: a hit returns the name and unlocks,
\* a miss calls getFn with the lock held
NameCacheGetLock(g) ==
    /\ gets[g].op = "Get"
    /\ gets[g].pc = "Lock"
    /\ cacheMutex = Free
    /\ IF has(cache, gets[g].id)
       THEN /\ gets' = setGet(g, [gets[g] EXCEPT !.pc = "done", !.name = cache[gets[g].id]])
            /\ UNCHANGED <<cache, cacheMutex, upstream>>
       ELSE /\ gets' = setGet(g, [gets[g] EXCEPT !.pc = "getFn", !.fetched = TRUE])
            /\ cacheMutex' = <<"Get", g>>
            /\ upstream' = [upstream EXCEPT
                               !.calls = put(@, gets[g].id, count(@, gets[g].id) + 1)]
            /\ UNCHANGED cache
    /\ UNCHANGED qrVars
    /\ UNCHANGED dsVars

\* getFn returns the resource: its name is stored under the id and returned
NameCacheGetFetched(g, name) ==
    /\ gets[g].op = "Get"
    /\ gets[g].pc = "getFn"
    /\ cache' = put(cache, gets[g].id, name)
    /\ gets' = setGet(g, [gets[g] EXCEPT !.pc = "done", !.name = cache'[gets[g].id]])
    /\ upstream' = [upstream EXCEPT !.names = put(@, gets[g].id, name)]
    /\ cacheMutex' = Free
    /\ UNCHANGED qrVars
    /\ UNCHANGED dsVars

\* mutant: a failed fetch stores the empty name
NameCacheGetFailedStores(g) ==
    /\ gets[g].op = "Get"
    /\ gets[g].pc = "getFn"
    /\ gets' = setGet(g, [gets[g] EXCEPT !.pc = "done", !.name = "", !.err = ErrUpstream])
    /\ cache' = put(cache, gets[g].id, "")
    /\ cacheMutex' = Free
    /\ UNCHANGED upstream
    /\ UNCHANGED qrVars
    /\ UNCHANGED dsVars

\* getFn returns an error: Get returns "" and the error
NameCacheGetFailed(g) ==
    /\ gets[g].op = "Get"
    /\ gets[g].pc = "getFn"
    /\ gets' = setGet(g, [gets[g] EXCEPT !.pc = "done", !.name = "", !.err = ErrUpstream])
    /\ cacheMutex' = Free
    /\ UNCHANGED <<cache, upstream>>
    /\ UNCHANGED qrVars
    /\ UNCHANGED dsVars

\* the loop of Insert over the resources
RECURSIVE insertAll(_, _)
insertAll(m, resources) ==
    IF resources = <<>> THEN m
    ELSE insertAll(put(m, Head(resources).id, Head(resources).name), Tail(resources))

\* mutant: Insert keeps the name of an id the cache already holds
RECURSIVE insertMissing(_, _)
insertMissing(m, resources) ==
    IF resources = <<>> THEN m
    ELSE insertMissing(IF has(m, Head(resources).id) THEN m
                       ELSE put(m, Head(resources).id, Head(resources).name),
                       Tail(resources))

\* mutant: Insert does not update entries
NameCacheInsertKeeps(resources) ==
    /\ Len(gets) < MaxNameCalls
    /\ cacheMutex = Free
    /\ cache' = insertMissing(cache, resources)
    /\ upstream' = [upstream EXCEPT !.names = insertAll(@, resources)]
    /\ gets' = Append(gets, [op |-> "Insert", pc |-> "done", resources |-> resources])
    /\ UNCHANGED cacheMutex
    /\ UNCHANGED qrVars
    /\ UNCHANGED dsVars

\* Insert, with the lock from its first to its last statement
NameCacheInsert(resources) ==
    /\ Len(gets) < MaxNameCalls
    /\ cacheMutex = Free
    /\ cache' = insertAll(cache, resources)
    /\ upstream' = [upstream EXCEPT !.names = insertAll(@, resources)]
    /\ gets' = Append(gets, [op |-> "Insert", pc |-> "done", resources |-> resources])
    /\ UNCHANGED cacheMutex
    /\ UNCHANGED qrVars
    /\ UNCHANGED dsVars

NextNameCache ==
    \/ \E id \in IDs : NameCacheGet(id)
    \/ \E g \in 1..Len(gets) : NameCacheGetLock(g)
    \/ \E g \in 1..Len(gets), name \in Names : NameCacheGetFetched(g, name)
    \/ \E g \in 1..Len(gets) : NameCacheGetFailed(g)
    \/ \E resources \in ResourcesInputs : NameCacheInsert(resources)

SpecNameCache == Init /\ [][NextNameCache]_vars

(***************************************************************************)
(* Vocabulary of the properties.                                           *)
(***************************************************************************)
sameKey(a, b) == a.TimeRange = b.TimeRange /\ a.Step = b.Step

\* the elements of a round's allRequests for one id and one (TimeRange, Step)
callsFor(round, id, opts) ==
    {i \in 1..Len(round.allRequests) :
        round.allRequests[i].id = id /\ sameKey(round.allRequests[i].opts, opts)}

\* the requests of a round's snapshot for the id and (TimeRange, Step) of an element
pendingFor(round, it) ==
    {k \in 1..Len(round.snapshot[it.id]) : sameKey(round.snapshot[it.id][k].opts, it.opts)}

seriesOf(metricsTypes) == UNION {serverMetricsTypeSeries[t] : t \in Range(metricsTypes)}

\* no sendResponse has panicked
NoPanic == ~crashed /\ \A r \in Running : ~rounds[r].panicked

\* nothing runs and no timer is armed
Quiescent == ~crashed /\ armed = 0 /\ rounds = <<>> /\ mutex = Free

(***************************************************************************)
(* C1: in one execution of sendRequests, every (ResourceID, TimeRange,     *)
(* Step) triple that occurs among the pending requests of the snapshot     *)
(* gets exactly one element of allRequests, that is one q.apiRequestFn     *)
(* call, however many RequestMetrics calls submitted it; allRequests holds *)
(* no element for a triple that is not pending; and every element is taken *)
(* by one worker at most: it is waiting in todo or in flight, never both.  *)
(***************************************************************************)
C1_OneCallPerTriple ==
    \A r \in Running :
        /\ \A id \in DOMAIN rounds[r].snapshot : \A k \in 1..Len(rounds[r].snapshot[id]) :
              Cardinality(callsFor(rounds[r], id, rounds[r].snapshot[id][k].opts)) = 1
        /\ \A i \in 1..Len(rounds[r].allRequests) :
              /\ rounds[r].allRequests[i].id \in DOMAIN rounds[r].snapshot
              /\ pendingFor(rounds[r], rounds[r].allRequests[i]) # {}
        /\ rounds[r].todo \cap {w.idx : w \in rounds[r].inflight} = {}
        /\ rounds[r].todo \cup {w.idx : w \in rounds[r].inflight}
              \subseteq 1..Len(rounds[r].allRequests)
        /\ (forEachDone(rounds[r]) /\ ~rounds[r].panicked) => rounds[r].todo = {}

\* two calls wait for the same triple and the one upstream call for it is in flight
C1_Witness ==
    \E r \in Running : \E w \in rounds[r].inflight :
        LET it == rounds[r].allRequests[w.idx]
        IN /\ Cardinality({rounds[r].snapshot[it.id][k].responseCh : k \in pendingFor(rounds[r], it)}) >= 2
           /\ Cardinality(callsFor(rounds[r], it.id, it.opts)) = 1

(***************************************************************************)
(* C2: the upstream call of a triple asks for exactly the union of the     *)
(* metrics types of the pending requests of that triple, and what a call   *)
(* is handed for an id is the response filtered to the types that call     *)
(* asked for: the series of its own types, of its own range and step.      *)
(***************************************************************************)
C2_UnionProperty ==
    /\ \A r \in Running : \A i \in 1..Len(rounds[r].allRequests) :
          LET it == rounds[r].allRequests[i]
          IN Range(it.opts.MetricsTypes) =
                UNION {Range(rounds[r].snapshot[it.id][k].opts.MetricsTypes) :
                          k \in pendingFor(rounds[r], it)}
    /\ \A c \in Calls : \A k \in 1..Len(responseCh[c]) :
          LET m == responseCh[c][k]
          IN m.err = NoErr =>
                /\ ~m.metrics.isNil
                /\ m.metrics.TimeSeries = [s \in seriesOf(calls[c].opts.MetricsTypes) |-> m.id]
                /\ m.metrics.Start = calls[c].opts.TimeRange.From
                /\ m.metrics.End = calls[c].opts.TimeRange.To
                /\ m.metrics.Step = calls[c].opts.Step

\* the one upstream call of a round, for {cpu, disk-iops}, has answered a call
\* that asked for cpu and a call that asked for disk-iops
C2_Witness ==
    /\ \E r \in Running :
          /\ Len(rounds[r].allRequests) = 1
          /\ rounds[r].allRequests[1].opts.MetricsTypes = <<"cpu", "disk-iops">>
          /\ rounds[r].allRequests[1].id = 1
          /\ rounds[r].inflight = {}
    /\ \E c, d \in Calls :
          /\ calls[c].opts.MetricsTypes = <<"cpu">>
          /\ calls[d].opts.MetricsTypes = <<"disk-iops">>
          /\ responseCh[c] # <<>> /\ responseCh[d] # <<>>
          /\ DOMAIN Head(responseCh[c]).metrics.TimeSeries = {"cpu"}
          /\ DOMAIN Head(responseCh[d]).metrics.TimeSeries = {"disk.0.iops.read", "disk.0.iops.write"}

(***************************************************************************)
(* C3: two pending requests of one id whose TimeRange or Step differ are   *)
(* served by two different upstream calls of the round, each with the      *)
(* TimeRange and Step of its request, also when they ask for the same      *)
(* metrics types.                                                          *)
(***************************************************************************)
C3_NoCoalescingOnDivergence ==
    \A r \in Running : \A id \in DOMAIN rounds[r].snapshot :
        \A k, l \in 1..Len(rounds[r].snapshot[id]) :
            ~sameKey(rounds[r].snapshot[id][k].opts, rounds[r].snapshot[id][l].opts) =>
               \E i, j \in 1..Len(rounds[r].allRequests) :
                  /\ i # j
                  /\ rounds[r].allRequests[i].id = id /\ rounds[r].allRequests[j].id = id
                  /\ sameKey(rounds[r].allRequests[i].opts, rounds[r].snapshot[id][k].opts)
                  /\ sameKey(rounds[r].allRequests[j].opts, rounds[r].snapshot[id][l].opts)

\* a round with two upstream calls for one id, the same types and the same
\* range: they differ in the step
C3_Witness ==
    \E r \in Running : \E i, j \in 1..Len(rounds[r].allRequests) :
        /\ rounds[r].allRequests[i].id = rounds[r].allRequests[j].id
        /\ rounds[r].allRequests[i].opts.MetricsTypes = rounds[r].allRequests[j].opts.MetricsTypes
        /\ rounds[r].allRequests[i].opts.TimeRange = rounds[r].allRequests[j].opts.TimeRange
        /\ rounds[r].allRequests[i].opts.Step # rounds[r].allRequests[j].opts.Step

(***************************************************************************)
(* C4: when the upstream call of a bucket fails with no metrics value,     *)
(* sendResponse puts that error on the channel of every pending request    *)
(* the bucket matches, and a RequestMetrics call that takes an error from  *)
(* its channel returns it as its result.                                   *)
(***************************************************************************)
sentTo(matched, c) == Len(SelectSeq(matched, LAMBDA req : req.responseCh = c))

C4_ErrorPropagation ==
    [][/\ \A r \in Running : \A w \in rounds[r].inflight :
             sendResponse(r, w, "err") =>
                LET matched == matchedRequests(requests, responseOf(r, w, "err"))
                IN \A c \in Calls :
                      /\ Len(responseCh'[c]) = Len(responseCh[c]) + sentTo(matched, c)
                      /\ \A k \in (Len(responseCh[c]) + 1)..Len(responseCh'[c]) :
                            responseCh'[c][k].err = ErrUpstream
       /\ \A c \in Calls :
             (calls[c].pc = "waiting" /\ Len(responseCh'[c]) < Len(responseCh[c])
                 /\ Head(responseCh[c]).err # NoErr) =>
                (calls'[c].pc = "done" /\ calls'[c].err = Head(responseCh[c]).err)]_vars

(***************************************************************************)
(* C5: RequestMetrics returns once it has taken len(ids) successful        *)
(* results from its channel, also for a list that names an id twice: it    *)
(* never waits with len(ids) results taken, and the map it returns has an  *)
(* entry for every id of the list.                                         *)
(***************************************************************************)
C5_ReturnsAfterLenIdsResults ==
    \A c \in Calls :
        /\ calls[c].pc = "waiting" => Len(calls[c].taken) < Len(calls[c].ids)
        /\ (calls[c].pc = "done" /\ calls[c].ret = "map") =>
              DOMAIN calls[c].results = Range(calls[c].ids)

(***************************************************************************)
(* C6: RequestMetrics returns either a map with a metrics value for every  *)
(* id of the list and no error, or no map and an error; an error taken     *)
(* from the channel ends the call with that error, whatever results it     *)
(* has taken before.                                                       *)
(***************************************************************************)
C6_NoPartialMapping ==
    \A c \in Calls :
        /\ IF calls[c].pc = "done"
           THEN \/ /\ calls[c].ret = "map" /\ calls[c].err = NoErr
                   /\ DOMAIN calls[c].results = Range(calls[c].ids)
                   /\ \A id \in DOMAIN calls[c].results : ~calls[c].results[id].isNil
                \/ calls[c].ret = "nil" /\ calls[c].err # NoErr
           ELSE calls[c].ret = "none" /\ calls[c].err = NoErr
        /\ \A k \in 1..Len(calls[c].taken) :
              calls[c].taken[k] # NoErr =>
                 /\ k = Len(calls[c].taken)
                 /\ calls[c].pc = "done" /\ calls[c].ret = "nil"
                 /\ calls[c].err = calls[c].taken[k]

\* a call for two ids has taken a result for one id and has then failed with
\* the upstream error of the other
C6_Witness ==
    \E c \in Calls :
        /\ calls[c].pc = "done" /\ calls[c].ret = "nil" /\ calls[c].err = ErrUpstream
        /\ calls[c].ids = <<1, 2>>
        /\ calls[c].taken = <<NoErr, ErrUpstream>>

(***************************************************************************)
(* C7: a RequestMetrics call that waits can return the cancellation error  *)
(* of its context at once, whether or not the timer has fired, an upstream *)
(* call is in flight or the mutex is held.                                 *)
(***************************************************************************)
C7_CancellationLatency ==
    \A c \in Calls :
        (calls[c].pc = "waiting" /\ ~crashed) => ENABLED RequestMetricsCanceled(c)

\* the call has returned the cancellation error while the timer its submission
\* armed has not fired: its request is still pending and no round has run
C7_Witness ==
    /\ calls[1].pc = "done" /\ calls[1].err = ErrCanceled /\ calls[1].ret = "nil"
    /\ calls[2].pc = "idle"
    /\ armed = 1 /\ rounds = <<>> /\ bufferTimer = "set"
    /\ \A k \in 1..Len(calls[1].ids) : calls[1].ids[k] \in DOMAIN requests

(***************************************************************************)
(* C8: the cancellation of a call leaves the upstream calls to their       *)
(* course: when nothing runs any more, every request of every other call   *)
(* that still waits has been answered (the call has taken the response or  *)
(* finds it on its channel).                                               *)
(***************************************************************************)
C8_CancelLeavesUpstreamCalls ==
    \A c, d \in Calls :
        (c # d /\ calls[c].err = ErrCanceled /\ calls[d].pc = "waiting" /\ Quiescent) =>
           Len(calls[d].taken) + Len(responseCh[d]) = Len(calls[d].ids)

\* a cancelled call and another call shared a bucket: the response was put on
\* the channel of the cancelled call too, and the other call has returned its map
C8_Witness ==
    \E c, d \in Calls :
        /\ c # d
        /\ calls[c].pc = "done" /\ calls[c].err = ErrCanceled
        /\ calls[c].taken = <<>> /\ responseCh[c] # <<>>
        /\ calls[d].pc = "done" /\ calls[d].ret = "map"
        /\ sameKey(calls[c].opts, calls[d].opts)
        /\ Range(calls[c].ids) \cap Range(calls[d].ids) # {}
        /\ Quiescent

(***************************************************************************)
(* C9: at most one debounce timer is armed (created and not yet fired) at  *)
(* any time; stated for the runs in which no upstream call has failed.     *)
(***************************************************************************)
C9_AtMostOneTimerArmed == NoPanic => armed <= 1

(***************************************************************************)
(* C10: q.requests and q.bufferTimer are read and written only by a task   *)
(* that holds q.mutex: a sendRequests goroutine that is about to execute a *)
(* statement of resetBufferTimer holds the mutex; stated for the runs in   *)
(* which no upstream call has failed.                                      *)
(***************************************************************************)
inResetBufferTimer(round) ==
    forEachDone(round) \/ round.pc \in {"resetLen", "startBuffer", "afterFunc"}

C10_AccessUnderMutex ==
    NoPanic => \A r \in Running : inResetBufferTimer(rounds[r]) => mutex = <<"round", r>>

(***************************************************************************)
(* C11: while an upstream call is in progress no sendRequests goroutine    *)
(* holds q.mutex, so a RequestMetrics call is never kept waiting by it:    *)
(* the mutex is free, and the next call can lock it and append its         *)
(* requests, or it is held by a RequestMetrics call that is at             *)
(* q.startBuffer() and q.mutex.Unlock(), which it can execute at once.     *)
(***************************************************************************)
C11_NoLockDuringUpstreamCall ==
    \A r \in Running :
        (rounds[r].inflight # {} /\ ~crashed) =>
           /\ mutex[1] # "round"
           /\ \/ /\ mutex = Free
                 /\ \A c \in Calls :
                       (/\ calls[c].pc = "idle"
                        /\ \A d \in Calls : d < c => calls[d].pc # "idle"
                        /\ 1 + submitted <= MaxRequests)
                          => ENABLED RequestMetricsLock(c, <<1>>, BaseOpts)
              \/ \E c \in Calls :
                    /\ mutex = <<"call", c>>
                    /\ calls[c].pc = "locked"
                    /\ (startBufferArms(bufferTimer) => armed < MaxArmed)
                          => ENABLED RequestMetricsSubmit(c)

\* a call has locked the mutex and appended its requests while the upstream
\* call of a round that has not seen them was in flight
C11_Witness ==
    \E r \in Running : \E c \in Calls :
        /\ rounds[r].inflight # {}
        /\ calls[c].pc \in {"locked", "waiting"}
        /\ \A id \in DOMAIN rounds[r].snapshot : \A k \in 1..Len(rounds[r].snapshot[id]) :
              rounds[r].snapshot[id][k].responseCh # c

(***************************************************************************)
(* C12: a request is in q.requests from its submission until it is         *)
(* answered or its RequestMetrics call is aborted: once a call has         *)
(* returned an error (the cancellation of its context or an error          *)
(* result), q.requests holds no request of that call.                      *)
(***************************************************************************)
requestsOf(c) ==
    UNION {{<<id, k>> : k \in {j \in 1..Len(requests[id]) : requests[id][j].responseCh = c}} :
              id \in DOMAIN requests}

C12_AbortedCallLeavesNoRequest ==
    \A c \in Calls :
        (calls[c].pc = "done" /\ calls[c].err # NoErr) => requestsOf(c) = {}

(***************************************************************************)
(* C13: r.matches(other) is true if and only if the two have the same      *)
(* TimeRange.From, the same TimeRange.To, the same Step and every metrics  *)
(* type of other is among those of r; r may hold more types than other,    *)
(* and an r that holds only a part of other's types does not match.        *)
(***************************************************************************)
C13_MatchesIff ==
    (args.fn = "matches" /\ result.returned) =>
       LET r == args.r
           other == args.other
       IN /\ result.value <=>
                /\ r.TimeRange.From = other.TimeRange.From
                /\ r.TimeRange.To = other.TimeRange.To
                /\ r.Step = other.Step
                /\ Range(other.MetricsTypes) \subseteq Range(r.MetricsTypes)
          /\ (/\ Range(r.MetricsTypes) \subseteq Range(other.MetricsTypes)
              /\ Range(r.MetricsTypes) # Range(other.MetricsTypes)) => ~result.value

\* a response for {cpu, disk-iops} has matched a request for {cpu}
C13_Witness ==
    /\ args.fn = "matches" /\ result.returned
    /\ args.r.MetricsTypes = <<"cpu", "disk-iops">>
    /\ args.other.MetricsTypes = <<"cpu">>
    /\ result.value

(***************************************************************************)
(* C14: matches is reflexive: opts.matches(opts) is true for every opts.   *)
(***************************************************************************)
C14_MatchesReflexive ==
    (args.fn = "matches" /\ result.returned /\ args.r = args.other) => result.value

\* opts.matches(opts) has returned true for an opts with two metrics types
C14_Witness ==
    /\ args.fn = "matches" /\ result.returned
    /\ args.r = args.other
    /\ Len(args.r.MetricsTypes) = 2
    /\ result.value

(***************************************************************************)
(* C15: uniqueRequests(L) holds exactly one RequestOpts for every          *)
(* (TimeRange, Step) that occurs in L and none for another; its            *)
(* MetricsTypes is the union of the MetricsTypes of the members of L with  *)
(* that (TimeRange, Step), without duplicates and in ascending order.      *)
(***************************************************************************)
typeIndex(t) == CHOOSE i \in 1..Len(TypeOrder) : TypeOrder[i] = t

membersOf(L, u) == {i \in 1..Len(L) : sameKey(L[i], u)}

C15_UniqueRequestsUnion ==
    (args.fn = "uniqueRequests" /\ result.returned) =>
       LET L == args.requests
           U == result.value
       IN /\ \A i \in 1..Len(L) : Cardinality({j \in 1..Len(U) : sameKey(U[j], L[i])}) = 1
          /\ \A j \in 1..Len(U) :
                /\ membersOf(L, U[j]) # {}
                /\ Range(U[j].MetricsTypes) =
                      UNION {Range(L[i].MetricsTypes) : i \in membersOf(L, U[j])}
                /\ \A a, b \in 1..Len(U[j].MetricsTypes) :
                      a < b => typeIndex(U[j].MetricsTypes[a]) < typeIndex(U[j].MetricsTypes[b])

\* two members of one (TimeRange, Step), for {disk-iops, cpu} and for {cpu}, and
\* a third of another step have given two elements
C15_Witness ==
    /\ args.fn = "uniqueRequests" /\ result.returned
    /\ Len(args.requests) = 3
    /\ args.requests[1].MetricsTypes = <<"disk-iops", "cpu">>
    /\ args.requests[2].MetricsTypes = <<"cpu">>
    /\ sameKey(args.requests[1], args.requests[2])
    /\ args.requests[3].Step # args.requests[1].Step
    /\ Len(result.value) = 2
    /\ \E j \in 1..2 : result.value[j].MetricsTypes = <<"cpu", "disk-iops">>

(***************************************************************************)
(* C16: the list uniqueRequests returns has a fixed order: the elements    *)
(* stand in the order in which their (TimeRange, Step) first occurs in the *)
(* input.                                                                  *)
(***************************************************************************)
firstIndex(L, u) == CHOOSE i \in membersOf(L, u) : \A k \in membersOf(L, u) : i <= k

C16_UniqueRequestsOrder ==
    (args.fn = "uniqueRequests" /\ result.returned) =>
       \A a, b \in 1..Len(result.value) :
          a < b => firstIndex(args.requests, result.value[a])
                      < firstIndex(args.requests, result.value[b])

(***************************************************************************)
(* C17: stepSize takes step = floor(interval in seconds) and, when the     *)
(* number of points of that step, ceil(duration / step), exceeds           *)
(* maxDataPoints, takes step = floor(duration / maxDataPoints) instead     *)
(* (the result is at least 1); an interval of 5 s over 1000 s with         *)
(* maxDataPoints = 100 gives 10.  Stated for intervals of a second or more.*)
(***************************************************************************)
ceilDiv(a, b) == (a + b - 1) \div b

atLeastOne(n) == IF n < 1 THEN 1 ELSE n

C17_StepSizeByPoints ==
    (args.fn = "stepSize" /\ result.returned) =>
       LET step == FloorSeconds(args.interval)
           duration == DurationSeconds(args.timeRange)
       IN step >= 1 =>
             result.value = atLeastOne(IF ceilDiv(duration, step) > args.maxDataPoints
                                       THEN duration \div args.maxDataPoints
                                       ELSE step)

(***************************************************************************)
(* C18: stepSize returns an integer that is at least 1, for every time     *)
(* range, every interval (those below a second included) and every         *)
(* positive maxDataPoints.                                                 *)
(***************************************************************************)
C18_StepSizeAtLeastOne ==
    (args.fn = "stepSize" /\ result.returned) => (result.value \in Int /\ result.value >= 1)

\* an interval of 200 ms has given the step 1, and so has an interval of 120 s
\* over 30 s with maxDataPoints = 100
C18_Witness ==
    /\ args.fn = "stepSize" /\ result.returned
    /\ result.value = 1
    /\ \/ args.interval = 200
       \/ /\ args.interval = 120000
          /\ DurationSeconds(args.timeRange) = 30
          /\ args.maxDataPoints = 100

(***************************************************************************)
(* C19: when RequestMetrics has failed, with an upstream error or with     *)
(* the cancellation of the context, queryMetrics returns a DataResponse    *)
(* with its Error set, not a response without error and without frames.    *)
(***************************************************************************)
C19_QueryMetricsSurfacesError ==
    \A c \in Calls :
        (calls[c].pc = "done" /\ calls[c].err # NoErr) =>
           /\ queryMetrics(calls[c]).Error # NoErr
           /\ ~(queryMetrics(calls[c]).Error = NoErr /\ queryMetrics(calls[c]).Frames = NoFrames)

(***************************************************************************)
(* C20: QueryData returns a nil error and a Responses map with an entry    *)
(* for the RefID of every query of the request, whatever its query type    *)
(* (the empty and the unknown included); no write of a response is lost:   *)
(* the entry of a RefID is the response of the last query of that RefID.   *)
(* At most ten tasks run at a time.                                        *)
(***************************************************************************)
lastWith(id) ==
    CHOOSE i \in 1..Len(queries) :
        /\ queries[i].RefID = id
        /\ \A j \in 1..Len(queries) : queries[j].RefID = id => j <= i

C20_QueryDataOneEntryPerRefID ==
    /\ Cardinality(tasksAt("running")) <= StreamMaxGoroutines
    /\ responses.returned =>
          /\ responses.err = NoErr
          /\ DOMAIN responses.Responses = {queries[i].RefID : i \in 1..Len(queries)}
          /\ \A id \in DOMAIN responses.Responses :
                responses.Responses[id] = dataResponse(queries[lastWith(id)])

\* QueryData has returned for the request of eleven queries, some of them of no
\* known query type
C20_Witness ==
    /\ responses.returned
    /\ Len(queries) > StreamMaxGoroutines
    /\ \E i \in 1..Len(queries) :
          /\ queries[i].QueryType = ""
          /\ queries[i].RefID \in DOMAIN responses.Responses
    /\ Cardinality(DOMAIN responses.Responses) = Len(queries)

(***************************************************************************)
(* C21: getDisplayName replaces every placeholder {{ label }} of the       *)
(* legend format, whatever the white space inside the braces, with the     *)
(* value of the label or with the empty string when the label is absent,   *)
(* keeps the text outside the placeholders, and takes the format           *)
(* "{{ series_display_name }} {{ name }}" when the legend format is empty. *)
(***************************************************************************)
expandToken(t, labels) ==
    IF t.kind = "text" THEN t.str
    ELSE IF t.name \in DOMAIN labels THEN labels[t.name] ELSE <<>>

RECURSIVE expand(_, _)
expand(tokens, labels) ==
    IF tokens = <<>> THEN <<>>
    ELSE expandToken(Head(tokens), labels) \o expand(Tail(tokens), labels)

autoTokens ==
    <<[kind |-> "label", name |-> <<"d">>, left |-> 1, right |-> 1],
      [kind |-> "text", str |-> <<" ">>],
      [kind |-> "label", name |-> <<"n">>, left |-> 1, right |-> 1]>>

C21_GetDisplayNameReplaces ==
    (args.fn = "getDisplayName" /\ result.returned) =>
       result.value = expand(IF args.tokens = <<>> THEN autoTokens ELSE args.tokens, args.labels)

\* the text outside the placeholders holds no "{" right before another "{"
noBraceBeforeBrace(tokens) ==
    \A i \in 1..(Len(tokens) - 1) :
       tokens[i] = [kind |-> "text", str |-> <<"{">>] => Head(tokenString(tokens[i + 1])) # "{"

\* C21, amended: the same for a legend format whose text outside the
\* placeholders holds no "{" directly before a "{"; with one, the placeholder
\* begins at that earlier brace and its label name holds a brace.
C21_GetDisplayNameReplacesPlain ==
    (args.fn = "getDisplayName" /\ result.returned /\ noBraceBeforeBrace(args.tokens)) =>
       result.value = expand(IF args.tokens = <<>> THEN autoTokens ELSE args.tokens, args.labels)

\* a format with text, braces among it, and a placeholder with white space
\* inside, replaced by the value of its label
C21_Witness ==
    /\ args.fn = "getDisplayName"
    /\ result.returned
    /\ args.tokens = <<[kind |-> "text", str |-> <<"{">>],
                       [kind |-> "text", str |-> <<"x">>],
                       [kind |-> "label", name |-> <<"n">>, left |-> 1, right |-> 3]>>
    /\ args.labels # <<>>
    /\ result.value = <<"{", "x", "w", "e", "b">>

(***************************************************************************)
(* C22: Get returns the cached name without a getFn call when the id is    *)
(* cached; on a miss it calls getFn once, stores the name and returns it.  *)
(* Whatever the interleaving of Get calls, getFn is called at most once    *)
(* for an id as long as its fetches succeed: the calls for an id number at *)
(* most one more than the failed ones.                                     *)
(***************************************************************************)
getsOf(id) == {g \in 1..Len(gets) : gets[g].op = "Get" /\ gets[g].id = id}

C22_GetFetchesOnce ==
    \A id \in IDs :
       /\ count(upstream.calls, id)
             <= Cardinality({g \in getsOf(id) : gets[g].err # NoErr}) + 1
       /\ count(upstream.calls, id) = Cardinality({g \in getsOf(id) : gets[g].fetched})
       /\ \A g \in getsOf(id) :
             (gets[g].pc = "done" /\ gets[g].err = NoErr) =>
                /\ has(cache, id)
                /\ gets[g].name \in Names

\* two Get calls for one id, the second arriving while the first holds the
\* lock: one getFn call, the same name for both
C22_Witness ==
    /\ Len(gets) >= 2
    /\ gets[1].op = "Get" /\ gets[2].op = "Get"
    /\ gets[1].id = gets[2].id
    /\ gets[1].pc = "done" /\ gets[2].pc = "done"
    /\ gets[2].concurrent
    /\ gets[1].fetched /\ ~gets[2].fetched
    /\ gets[1].name = gets[2].name /\ gets[1].err = NoErr
    /\ count(upstream.calls, gets[1].id) = 1

(***************************************************************************)
(* C23: when getFn fails, Get returns the error, the cache is as it was    *)
(* and holds no entry for the id, and the lock is released, so that the    *)
(* next Get for the id fetches again.                                      *)
(***************************************************************************)
C23_FetchFailedStep(g) ==
    /\ gets[g].op = "Get"
    /\ gets[g].pc = "getFn"
    /\ gets'[g].pc = "done"
    /\ gets'[g].err # NoErr

C23_FailedFetchLeavesCache ==
    [][\A g \in 1..Len(gets) :
          C23_FetchFailedStep(g) =>
             /\ gets'[g].err = ErrUpstream
             /\ gets'[g].name = ""
             /\ cache' = cache
             /\ ~has(cache', gets[g].id)
             /\ cacheMutex' = Free]_vars

\* a failed Get, then a Get for the same id that fetched again and succeeded
C23_Witness ==
    /\ Len(gets) >= 2
    /\ gets[1].op = "Get" /\ gets[2].op = "Get"
    /\ gets[1].id = gets[2].id
    /\ gets[1].pc = "done" /\ gets[1].err = ErrUpstream
    /\ gets[2].pc = "done" /\ gets[2].err = NoErr /\ gets[2].fetched
    /\ count(upstream.calls, gets[1].id) = 2
    /\ cache[gets[2].id] = gets[2].name

(***************************************************************************)
(* C24: Insert sets the entry of every resource it is given to the name of *)
(* that resource, an existing entry included, and leaves the entries of    *)
(* the other ids as they were; a Get that finds its id in the cache        *)
(* returns the name the last Insert or successful fetch gave for the id    *)
(* and makes no upstream call.                                             *)
(***************************************************************************)
C24_InsertStep ==
    /\ Len(gets') = Len(gets) + 1
    /\ gets'[Len(gets')].op = "Insert"

lastNameOf(resources, id) ==
    LET at == {i \in 1..Len(resources) : resources[i].id = id}
    IN resources[CHOOSE i \in at : \A k \in at : k <= i].name

C24_HitStep(g) ==
    /\ gets[g].op = "Get"
    /\ gets[g].pc = "Lock"
    /\ gets'[g].pc = "done"

C24_InsertThenGet ==
    [][/\ C24_InsertStep =>
             LET resources == gets'[Len(gets')].resources
             IN \A id \in IDs :
                   IF \E i \in 1..Len(resources) : resources[i].id = id
                   THEN has(cache', id) /\ cache'[id] = lastNameOf(resources, id)
                   ELSE /\ has(cache', id) <=> has(cache, id)
                        /\ has(cache, id) => cache'[id] = cache[id]
       /\ \A g \in 1..Len(gets) :
             C24_HitStep(g) =>
                /\ gets'[g].name = upstream.names[gets[g].id]
                /\ gets'[g].err = NoErr
                /\ upstream' = upstream]_vars

\* two resources inserted, one of them inserted again with another name, and
\* a Get of it that returns the later name without a fetch
C24_Witness ==
    /\ Len(gets) = 3
    /\ gets[1] = [op |-> "Insert", pc |-> "done",
                  resources |-> <<[id |-> 1, name |-> "a"], [id |-> 2, name |-> "a"]>>]
    /\ gets[2] = [op |-> "Insert", pc |-> "done", resources |-> <<[id |-> 1, name |-> "b"]>>]
    /\ gets[3].op = "Get" /\ gets[3].id = 1 /\ gets[3].pc = "done"
    /\ gets[3].name = "b" /\ ~gets[3].fetched
    /\ cache[2] = "a"
    /\ count(upstream.calls, 1) = 0

(***************************************************************************)
(* C25: a sample whose value does not parse never stops the conversion to  *)
(* frames: every series has one frame, with as many times and as many      *)
(* values as the series has samples; a sample that does not parse has the  *)
(* value ParseFloat gives with its error (0 or an infinity) and one        *)
(* warning notice in the frame of its series; every other sample has its   *)
(* parsed value, and every sample its time.                                *)
(***************************************************************************)
framesCall == args.fn \in {"serverMetricsToFrames", "loadBalancerMetricsToFrames"}

framesNamed(name) == {f \in result.value : f.Fields[2].Name = name}

unparseable(series) == {i \in 1..Len(series) : series[i].Value \in {"abc", "1e400"}}

C25_UnparseableSampleDegraded ==
    (framesCall /\ result.returned) =>
       /\ Cardinality(result.value) = Cardinality(DOMAIN args.metrics.TimeSeries)
       /\ \A name \in DOMAIN args.metrics.TimeSeries :
             LET series == args.metrics.TimeSeries[name]
             IN /\ Cardinality(framesNamed(name)) = 1
                /\ \A f \in framesNamed(name) :
                      /\ Len(f.Fields[1].values) = Len(series)
                      /\ Len(f.Fields[2].values) = Len(series)
                      /\ Len(f.Notices) = Cardinality(unparseable(series))
                      /\ \A k \in 1..Len(f.Notices) : f.Notices[k].Severity = "warning"
                      /\ \A i \in 1..Len(series) :
                            /\ f.Fields[1].values[i] = series[i].Timestamp \div 10
                            /\ IF i \in unparseable(series)
                               THEN /\ f.Fields[2].values[i] \in {"0", "+Inf"}
                                    /\ \E k \in 1..Len(f.Notices) :
                                          /\ f.Notices[k].Value = series[i].Value
                                          /\ f.Notices[k].Timestamp = series[i].Timestamp
                               ELSE f.Fields[2].values[i] = series[i].Value

\* a series with a sample that does not parse before one that does, next to
\* a series whose samples all parse
C25_Witness ==
    /\ args.fn = "serverMetricsToFrames"
    /\ result.returned
    /\ DOMAIN args.metrics.TimeSeries = {"cpu", "disk.0.iops.read"}
    /\ args.metrics.TimeSeries["cpu"] =
          <<[Timestamp |-> 15, Value |-> "abc"], [Timestamp |-> 30, Value |-> "1.5"]>>
    /\ unparseable(args.metrics.TimeSeries["disk.0.iops.read"]) = {}
    /\ Len(args.metrics.TimeSeries["disk.0.iops.read"]) = 2
    /\ \E f \in result.value :
          /\ f.Fields[2].Name = "cpu"
          /\ f.Fields[2].values = <<"0", "1.5">>
          /\ f.Fields[1].values = <<1, 3>>
          /\ Len(f.Notices) = 1
    /\ \E f \in result.value :
          /\ f.Fields[2].Name = "disk.0.iops.read"
          /\ f.Fields[2].values = <<"1.5", "1.5">>
          /\ f.Notices = <<>>

(***************************************************************************)
(* C26: for a failed upstream call, with an error and no metrics,          *)
(* sendResponse does not apply the filter: the step does not panic and     *)
(* every request the response matches is sent the error with the metrics   *)
(* of the response, nil, as they are.                                      *)
(***************************************************************************)
C26_FilterOnlyOnSuccess ==
    [][\A r \in Running : \A w \in rounds[r].inflight :
          (/\ sendResponse(r, w, "err")
           /\ matchedRequests(requests, responseOf(r, w, "err")) # <<>>) =>
             /\ ~rounds'[r].panicked
             /\ \A c \in Calls :
                   \A k \in (Len(responseCh[c]) + 1)..Len(responseCh'[c]) :
                      /\ responseCh'[c][k].err = ErrUpstream
                      /\ responseCh'[c][k].metrics = NilMetrics]_vars

(***************************************************************************)
(* C27: sendResponse routes over q.requests as it is when the response is  *)
(* routed, not over the snapshot of the round: every request of the id the *)
(* response matches, one submitted after the snapshot included, is sent    *)
(* the response and removed from q.requests, and every request of the id   *)
(* it does not match, and every request of another id, stays.  Stated for  *)
(* the responses that carry metrics.                                       *)
(***************************************************************************)
inSnapshot(r, c) ==
    \E id \in DOMAIN rounds[r].snapshot : \E k \in 1..Len(rounds[r].snapshot[id]) :
        rounds[r].snapshot[id][k].responseCh = c

C27_RoutesCurrentQueue ==
    [][\A r \in Running : \A w \in rounds[r].inflight : \A outcome \in {"ok", "errWithMetrics"} :
          sendResponse(r, w, outcome) =>
             LET resp == responseOf(r, w, outcome)
                 pending == requestsFor(requests, resp.id)
             IN /\ \A k \in 1..Len(pending) :
                      IF matches(resp.opts, pending[k].opts)
                      THEN /\ pending[k] \notin Range(requestsFor(requests', resp.id))
                           /\ \E m \in (Len(responseCh[pending[k].responseCh]) + 1)
                                          ..Len(responseCh'[pending[k].responseCh]) :
                                 /\ responseCh'[pending[k].responseCh][m].id = resp.id
                                 /\ responseCh'[pending[k].responseCh][m].opts = pending[k].opts
                      ELSE pending[k] \in Range(requestsFor(requests', resp.id))
                /\ \A id \in DOMAIN requests \ {resp.id} :
                      requestsFor(requests', id) = requests[id]]_vars

\* the one round there has been is over; a call that submitted ids 1 and 2
\* after the snapshot has the response for one of them on its channel and its
\* request for the other still in q.requests
C27_Witness ==
    /\ Len(rounds) = 1
    /\ rounds[1].inflight = {} /\ rounds[1].todo = {}
    /\ ~rounds[1].panicked
    /\ \E c \in Calls :
          /\ ~inSnapshot(1, c)
          /\ calls[c].ids = <<1, 2>>
          /\ Len(responseCh[c]) = 1
          /\ calls[c].taken = <<>>
          /\ \E id \in DOMAIN requests :
                /\ id # Head(responseCh[c]).id
                /\ \E k \in 1..Len(requests[id]) : requests[id][k].responseCh = c

(***************************************************************************)
(* C28: when the timer fires, sendRequests sets q.bufferTimer to nil under *)
(* the lock, before any upstream call, and takes its snapshot without      *)
(* removing a request; a RequestMetrics that submits while the upstream    *)
(* calls of the round are in flight and no timer is armed arms one.        *)
(***************************************************************************)
inFlight == \E r \in Running : rounds[r].pc = "dispatch" /\ rounds[r].inflight # {}

C28_FiringDisarmsTimer ==
    [][/\ sendRequests => (bufferTimer' = "nil" /\ requests' = requests)
       /\ \A c \in Calls :
             (RequestMetricsSubmit(c) /\ inFlight /\ armed = 0) => armed' = 1]_vars

(***************************************************************************)
(* C29: when the responses of a round have all been routed, the round's    *)
(* resetBufferTimer arms a timer if and only if q.requests is not empty;   *)
(* with q.requests empty it leaves q.bufferTimer nil.  Stated at the step  *)
(* that ends the round, for the runs in which no upstream call has failed. *)
(***************************************************************************)
inReset(r) == rounds[r].pc \in {"resetLen", "startBuffer", "afterFunc"}

C29_RearmIffPending ==
    [][\A r \in Running :
          (NoPanic /\ inReset(r) /\ Len(rounds') < Len(rounds)) =>
             /\ (armed' > 0) <=> (DOMAIN requests # {})
             /\ (DOMAIN requests = {}) => bufferTimer' = "nil"]_vars

(***************************************************************************)
(* C30: the runner is Idle (q.requests empty, no timer armed), Buffering   *)
(* (q.requests not empty, a timer armed) or Dispatching: whenever no round *)
(* is in progress and no call is inside RequestMetrics' critical section,  *)
(* a timer is armed if and only if q.requests is not empty.  Stated for    *)
(* the runs in which no upstream call has failed.                          *)
(***************************************************************************)
C30_IdleBufferingDispatching ==
    (NoPanic /\ Running = {} /\ mutex = Free) =>
       ((armed > 0) <=> (DOMAIN requests # {}))

(***************************************************************************)
(* C31: in a round, the upstream calls in flight at one time are at most   *)
(* the number of workers of iter.ForEach, however many (id, opts) elements *)
(* the round has; every element is called once: it is waiting, or in       *)
(* flight, or done, a worker takes its next element from those waiting,    *)
(* and a round whose ForEach has returned has none waiting.                *)
(***************************************************************************)
inflightIdx(round) == {w.idx : w \in round.inflight}

C31_BoundedWidth ==
    \A r \in Running :
       /\ Cardinality(rounds[r].inflight) <= MaxGoroutines
       /\ Cardinality(inflightIdx(rounds[r])) = Cardinality(rounds[r].inflight)
       /\ rounds[r].todo \cap inflightIdx(rounds[r]) = {}
       /\ rounds[r].todo # {} =>
             (rounds[r].panicked \/ Cardinality(rounds[r].inflight) = Min(Len(rounds[r].allRequests), MaxGoroutines))
       /\ (forEachDone(rounds[r]) /\ ~rounds[r].panicked) => rounds[r].todo = {}

\* a round of three elements: two calls in flight, the third waiting
C31_Witness ==
    \E r \in Running :
       /\ Len(rounds[r].allRequests) = 3
       /\ Cardinality(rounds[r].inflight) = 2
       /\ Cardinality(rounds[r].todo) = 1

(***************************************************************************)
(* C32: routing a response for an id removes from q.requests[id] exactly   *)
(* the requests the response matches and keeps the others in their order;  *)
(* it leaves the lists of the other ids and q.bufferTimer as they are, and *)
(* deletes the key of the id when no request is left, so that no key of    *)
(* q.requests has an empty list.  Stated for the responses that carry      *)
(* metrics.                                                                *)
(***************************************************************************)
C32_RoutingFrame ==
    [][/\ \A r \in Running : \A w \in rounds[r].inflight : \A outcome \in {"ok", "errWithMetrics"} :
             sendResponse(r, w, outcome) =>
                LET resp == responseOf(r, w, outcome)
                    kept == SelectSeq(requestsFor(requests, resp.id),
                                      LAMBDA req : ~matches(resp.opts, req.opts))
                IN /\ requestsFor(requests', resp.id) = kept
                   /\ (resp.id \in DOMAIN requests') <=> (kept # <<>>)
                   /\ DOMAIN requests' \ {resp.id} = DOMAIN requests \ {resp.id}
                   /\ \A id \in DOMAIN requests \ {resp.id} : requests'[id] = requests[id]
                   /\ bufferTimer' = bufferTimer
       /\ \A id \in DOMAIN requests' : requests'[id] # <<>>]_vars

\* a response for an id has been routed to one call while the request of
\* another call for that id, with another step or range, is still the list of
\* the id; the key of an id whose requests were all answered is gone
C32_Witness ==
    \E c, d \in Calls : \E id \in DOMAIN requests :
        /\ c # d
        /\ responseCh[c] # <<>>
        /\ Head(responseCh[c]).id = id
        /\ Len(requests[id]) = 1
        /\ requests[id][1].responseCh = d
        /\ ~sameKey(requests[id][1].opts, calls[c].opts)
        /\ calls[d].ids = <<1, 2>>
        /\ DOMAIN requests = {id}
        /\ Len(responseCh[d]) = 1

(***************************************************************************)
(* C33: a pending request is sent one result at most: the response that    *)
(* matches it first is put on its channel and the request is removed in    *)
(* the same locked step, so that no later response reaches it.  For every  *)
(* call, the results ever sent to its channel and its requests still in    *)
(* q.requests number len(ids) together.                                    *)
(***************************************************************************)
delivered(c) == Len(responseCh[c]) + Len(calls[c].taken)

C33_AtMostOneResult ==
    \A c \in Calls : delivered(c) + Cardinality(requestsOf(c)) = Len(calls[c].ids)

\* a call has been sent its one result and has no request left, and an
\* upstream call whose response would match that request is in flight
C33_Witness ==
    \E c \in Calls : \E r \in Running : \E w \in rounds[r].inflight :
        /\ calls[c].ids = <<1>>
        /\ delivered(c) = 1
        /\ requestsOf(c) = {}
        /\ rounds[r].allRequests[w.idx].id = 1
        /\ matches(rounds[r].allRequests[w.idx].opts, calls[c].opts)

(***************************************************************************)
(* C34: what RequestMetrics holds or returns under the key of an id comes  *)
(* from an upstream call for that id, with the range and the step of the   *)
(* call and with all the series of its metrics types, and is filtered to   *)
(* those types; a result on the channel of a call is for one of the ids of *)
(* the call and for its range and step.                                    *)
(***************************************************************************)
C34_ResultForOwnRequest ==
    \A c \in Calls :
       /\ DOMAIN calls[c].results \subseteq Range(calls[c].ids)
       /\ \A id \in DOMAIN calls[c].results :
             calls[c].results[id] =
                [isNil |-> FALSE,
                 Start |-> calls[c].opts.TimeRange.From, End |-> calls[c].opts.TimeRange.To,
                 Step |-> calls[c].opts.Step,
                 TimeSeries |-> [s \in seriesOf(calls[c].opts.MetricsTypes) |-> id]]
       /\ \A k \in 1..Len(responseCh[c]) :
             /\ responseCh[c][k].id \in Range(calls[c].ids)
             /\ responseCh[c][k].opts = calls[c].opts
             /\ ~responseCh[c][k].metrics.isNil =>
                   /\ responseCh[c][k].metrics.Start = calls[c].opts.TimeRange.From
                   /\ responseCh[c][k].metrics.End = calls[c].opts.TimeRange.To
                   /\ responseCh[c][k].metrics.Step = calls[c].opts.Step
                   /\ \A s \in DOMAIN responseCh[c][k].metrics.TimeSeries :
                         responseCh[c][k].metrics.TimeSeries[s] = responseCh[c][k].id

\* a call for ids 1 and 2 and a call for id 1 with another range or step have
\* both returned their maps
C34_Witness ==
    \E c, d \in Calls :
        /\ calls[c].pc = "done" /\ calls[c].ret = "map"
        /\ calls[c].ids = <<1, 2>>
        /\ DOMAIN calls[c].results = {1, 2}
        /\ calls[d].pc = "done" /\ calls[d].ret = "map"
        /\ calls[d].ids = <<1>>
        /\ ~sameKey(calls[c].opts, calls[d].opts)
        /\ Range(calls[d].opts.MetricsTypes) \subseteq Range(calls[c].opts.MetricsTypes)

(***************************************************************************)
(* C35: a send of sendResponse never blocks.  The channel of a call has    *)
(* the capacity len(ids); the results ever sent to it are at most len(ids),*)
(* and the sends of any response that can be routed next fit into the      *)
(* channels as they are, also the channel of a call that has returned and  *)
(* reads no more.                                                          *)
(***************************************************************************)
C35_SendNeverBlocks ==
    /\ \A c \in Calls : delivered(c) <= Len(calls[c].ids)
    /\ \A r \in Running : \A w \in rounds[r].inflight : \A outcome \in Outcomes :
          LET resp == responseOf(r, w, outcome)
          IN ~sendResponsePanics(requests, resp) =>
                \A c \in Calls :
                   Len(deliver(responseCh, matchedRequests(requests, resp), resp)[c])
                      <= Len(calls[c].ids)

\* a call for two ids has returned the cancellation of its context and both
\* results were sent to its channel all the same: the channel is full
C35_Witness ==
    \E c \in Calls :
        /\ calls[c].pc = "done" /\ calls[c].err = ErrCanceled
        /\ calls[c].ids = <<1, 2>>
        /\ Len(responseCh[c]) = 2
        /\ calls[c].taken = <<>>

(***************************************************************************)
(* C36: whenever sendResponse routes a response for an id, q.requests has  *)
(* a request for that id, so that len(q.requests[id])-1 is not negative:   *)
(* every upstream call in flight is for an id with a pending request.      *)
(* Stated for the runs in which no upstream call has failed.               *)
(***************************************************************************)
C36_SlotNotEmptyWhenRouting ==
    NoPanic =>
       \A r \in Running : \A w \in rounds[r].inflight :
          requestsFor(requests, rounds[r].allRequests[w.idx].id) # <<>>

(***************************************************************************)
(* C37: one round at most is between its snapshot and its resetBufferTimer *)
(* at any time, whatever the interleaving of submissions with the end of a *)
(* round: no request is in the snapshots of two such rounds and no (id,    *)
(* TimeRange, Step) triple has two upstream calls in flight.  Stated for   *)
(* the runs in which no upstream call has failed.                          *)
(***************************************************************************)
dispatching == {r \in Running : rounds[r].pc = "dispatch"}

C37_OneRoundAtATime ==
    NoPanic =>
       /\ Cardinality(dispatching) <= 1
       /\ \A r, q \in dispatching : \A w \in rounds[r].inflight : \A v \in rounds[q].inflight :
             (/\ rounds[r].allRequests[w.idx].id = rounds[q].allRequests[v.idx].id
              /\ sameKey(rounds[r].allRequests[w.idx].opts, rounds[q].allRequests[v.idx].opts)) =>
                (r = q /\ w = v)

(***************************************************************************)
(* C38: no wake-up is lost.  With the scheduling of SpecLive, every        *)
(* RequestMetrics call that has submitted its requests returns, whenever   *)
(* in a round the requests were submitted.                                 *)
(***************************************************************************)
C38_NoLostWakeup ==
    \A c \in Calls : (calls[c].pc \in {"locked", "waiting"}) ~> (calls[c].pc = "done")

(***************************************************************************)
(* C39: every entry of a round's snapshot is matched by exactly one of the *)
(* round's deduplicated requests for its id.  Hence, when the workers of   *)
(* the round have routed all its responses, no entry of the snapshot is    *)
(* left in q.requests, the calls of these entries have had one result for  *)
(* each of their ids, and what q.requests holds was submitted after the    *)
(* snapshot.  The second part is stated for the rounds none of whose       *)
(* workers has panicked; it then holds also when rounds overlap.           *)
(***************************************************************************)
snapshotEntries(r) ==
    UNION {{[id |-> id, req |-> rounds[r].snapshot[id][k]] :
               k \in 1..Len(rounds[r].snapshot[id])} : id \in DOMAIN rounds[r].snapshot}

buckets(r, e) ==
    {i \in 1..Len(rounds[r].allRequests) :
        /\ rounds[r].allRequests[i].id = e.id
        /\ matches(rounds[r].allRequests[i].opts, e.req.opts)}

allRouted(r) ==
    /\ ~rounds[r].panicked
    /\ rounds[r].inflight = {}
    /\ rounds[r].todo = {}

C39_SnapshotCovered ==
    \A r \in Running :
       /\ \A e \in snapshotEntries(r) : Cardinality(buckets(r, e)) = 1
       /\ allRouted(r) =>
             \A e \in snapshotEntries(r) :
                /\ e.req \notin Range(requestsFor(requests, e.id))
                /\ requestsOf(e.req.responseCh) = {}
                /\ delivered(e.req.responseCh) = Len(calls[e.req.responseCh].ids)

\* a round has routed all its responses: two entries of its snapshot, of
\* two calls and with different metrics types, shared a deduplicated request
C39_Witness ==
    \E r \in Running :
       /\ allRouted(r)
       /\ \E e, f \in snapshotEntries(r) :
             /\ e.req.responseCh # f.req.responseCh
             /\ e.req.opts.MetricsTypes # f.req.opts.MetricsTypes
             /\ e.id = f.id /\ buckets(r, e) = buckets(r, f)

(***************************************************************************)
(* C40: GetResourceIDs returns qm.ResourceIDs, with no call of the API,    *)
(* when the resources are selected by id and the list is not empty; with   *)
(* an empty list it lists all resources of the type, with no label         *)
(* selector, whatever qm.LabelSelectors holds; when they are selected by   *)
(* label it lists the resources that match the joined label selectors; any *)
(* other SelectBy or ResourceType gives an error and no call of the API.   *)
(***************************************************************************)
knownType(qm) == qm.ResourceType \in {ResourceTypeServer, ResourceTypeLoadBalancer}

explicitIDs(qm) == qm.SelectBy = SelectByID /\ Len(qm.ResourceIDs) > 0

\* one list call, of the client of the type, with this selector; its
\* resources are the ids returned when it succeeds
listedWith(qm, v, selector) ==
    /\ v.listed = <<[client |-> qm.ResourceType, ListOpts |-> [LabelSelector |-> selector]]>>
    /\ v.err = NoErr =>
          v.ids = idsOf(AllWithOpts(IF qm.ResourceType = ResourceTypeServer
                                    THEN projectServers ELSE projectLoadBalancers,
                                    [LabelSelector |-> selector], "ok").resources)

C40_GetResourceIDs ==
    (args.fn = "GetResourceIDs" /\ result.returned) =>
       LET qm == args.qm
           v == result.value
       IN /\ explicitIDs(qm) =>
                (v.ids = qm.ResourceIDs /\ v.err = NoErr /\ v.listed = <<>>)
          /\ (qm.SelectBy = SelectByID /\ ~explicitIDs(qm) /\ knownType(qm)) =>
                listedWith(qm, v, "")
          /\ (qm.SelectBy = SelectByLabel /\ knownType(qm)) =>
                listedWith(qm, v, Join(qm.LabelSelectors, ", "))
          /\ (~explicitIDs(qm) /\ (qm.SelectBy \notin {SelectByID, SelectByLabel} \/ ~knownType(qm))) =>
                (v.err # NoErr /\ v.listed = <<>>)

====
